---- MODULE Spec2Model ----
(***************************************************************************)
(* A model of the threaded IRC client of src/irc/client.py: one            *)
(* ServerConnection owned by one Client.  The receive thread (run) reads   *)
(* lines and queues events; the user thread sends commands, registers      *)
(* handlers and drains the event queue with Client.process.                *)
(*                                                                         *)
(* A Python str is a sequence of atoms.  An atom is a run of ASCII         *)
(* characters written as a TLA+ string, or one of the special atoms LF,    *)
(* CR, U2 (one character that UTF-8 encodes in two bytes) and PAD (a run   *)
(* of 250 ASCII letters).  A bytes object is a sequence of atoms too, with *)
(* U2 replaced by its two bytes.                                           *)
(***************************************************************************)
EXTENDS Integers, Sequences, FiniteSets, TLC

\* ------------------------------------------------------------------ bounds
MaxSock == 2        \* sockets the connect factory hands out in one run
MaxLines == 3       \* lines the server sends in one run
MaxQueue == 2       \* a receive step waits while this many events are queued
MaxWire == 3        \* user-thread sends stop at this many frames on a socket
MaxHandlers == 1    \* handlers the user registers in one run

\* ------------------------------------------------------------------- text
None == 0
LF == "\n"
CR == "\r"
U2 == "U+00E9"
PAD == "x*250"
UTF8_C3 == "0xC3"
UTF8_A9 == "0xA9"

\* 2 ** 14 bytes without a newline, all that one recv(2 ** 14) can give.
KIB16 == "16 KiB"

\* len() of one atom of a bytes object.
AtomLen(a) ==
    CASE a = PAD -> 250
      [] a = KIB16 -> 16384
      [] a \in {LF, CR, UTF8_C3, UTF8_A9} -> 1
      [] OTHER -> Len(a)

RECURSIVE ByteLen(_)
ByteLen(bytes) ==
    IF bytes = <<>> THEN 0 ELSE AtomLen(Head(bytes)) + ByteLen(Tail(bytes))

\* str.encode('utf-8')
RECURSIVE encode_utf8(_)
encode_utf8(string) ==
    IF string = <<>> THEN <<>>
    ELSE (IF Head(string) = U2 THEN <<UTF8_C3, UTF8_A9>> ELSE <<Head(string)>>)
         \o encode_utf8(Tail(string))

\* '\n' in string
contains_newline(string) == \E i \in 1..Len(string) : string[i] = LF

\* A length test that forgets the CR LF the frame ends with.
too_long_without_crlf(bytes) == ByteLen(bytes) > 514

\* The length test of _prep_message.
too_long(bytes) == ByteLen(bytes) > 512

\* A _prep_message that tests the length before the newline.
prep_message_length_first(string) ==
    LET bytes == encode_utf8(string) \o <<CR, LF>>
    IN IF too_long(bytes)
       THEN [exc |-> "MessageTooLong", bytes |-> <<>>]
       ELSE IF contains_newline(string)
       THEN [exc |-> "InvalidCharacters", bytes |-> <<>>]
       ELSE [exc |-> "", bytes |-> bytes]

\* ServerConnection._prep_message: the bytes to send, or the error raised.
prep_message(string) ==
    IF contains_newline(string)
    THEN [exc |-> "InvalidCharacters", bytes |-> <<>>]
    ELSE LET bytes == encode_utf8(string) \o <<CR, LF>>
         IN IF too_long(bytes)
            THEN [exc |-> "MessageTooLong", bytes |-> <<>>]
            ELSE [exc |-> "", bytes |-> bytes]

\* ----------------------------------------------------------------- events
Event(type, source, target, arguments) ==
    [type |-> type, source |-> source, target |-> target,
     arguments |-> arguments, line |-> 0]

NoEvent == Event("", "", "", <<>>)

PrioritizedHandler(priority, callback) ==
    [priority |-> priority, callback |-> callback]

\* PrioritizedHandler.__lt__: only the priority is compared.
handler_lt(a, b) == a.priority < b.priority

\* bisect.insort (insort_right): binary search for the place after every
\* entry that is not greater than x.
RECURSIVE bisect_right(_, _, _, _)
bisect_right(a, x, lo, hi) ==
    IF lo < hi
    THEN LET mid == (lo + hi) \div 2
         IN IF handler_lt(x, a[mid + 1])
            THEN bisect_right(a, x, lo, mid)
            ELSE bisect_right(a, x, mid + 1, hi)
    ELSE lo

insort(a, x) ==
    LET k == bisect_right(a, x, 0, Len(a))
    IN SubSeq(a, 1, k) \o <<x>> \o SubSeq(a, k + 1, Len(a))

\* sorted(): a stable sort that compares with __lt__ only.
RECURSIVE sorted(_)
sorted(a) ==
    IF a = <<>> THEN <<>> ELSE insort(sorted(SubSeq(a, 1, Len(a) - 1)), a[Len(a)])

\* dict.get(key, [])
dict_get(d, key) == IF key \in DOMAIN d THEN d[key] ELSE <<>>


\* A selection of handlers that leaves out the sort.
matching_handlers_unsorted(h, type) ==
    dict_get(h, "all_events") \o dict_get(h, type)

\* The handlers Client._handle_event queues with an event.
matching_handlers(h, type) ==
    sorted(dict_get(h, "all_events") \o dict_get(h, type))

\* is_channel: the strings of the model whose first character is one of #&+!
is_channel(string) == string \in {"#c", "#C", "&c", "#d"}

\* str.lower() on the names of the model.
lower(string) ==
    CASE string = "#C" -> "#c"
      [] string = "BestNick" -> "bestnick"
      [] OTHER -> string

\* NickMask.nick: the part before "!".
nick_of(source) ==
    CASE source = "bestnick!u@h" -> "bestnick"
      [] source = "nick2!u@h" -> "nick2"
      [] source = "bob!b@h" -> "bob"
      [] source = "alice!a@h" -> "alice"
      [] source = "Alice!a@h" -> "Alice"
      [] OTHER -> source

\* Python's None where a string is expected (an event's target or source).
NoneStr == "None"

\* ------------------------------------------------------------------ state
VARIABLES
    connected,                \* ServerConnection._connected
    socket,                   \* ServerConnection.socket: None or a socket id
    cond,                     \* each socket: unused, ok, eof, broken, closed
    wire,                     \* each socket: the frames written to it
    real_nickname,
    real_server_name,
    welcome_event_triggered,  \* _welcome_event_triggered
    delayed_001,
    delayed_001_event,
    delayed_001_saw_004,
    channels,                 \* _channels: lowered name -> Channel
    handlers,                 \* Client.handlers: event type -> sorted list
    event_handling_queue,     \* Client.event_handling_queue
    connections,              \* the connection is in Client.connections
    password,                 \* constructor argument
    pc_run,                   \* the receive thread: new, loop, dead
    on_connect_pending,       \* started on_connect threads that have not run
    lines_received,           \* lines the receive thread has taken so far
    line_mark,                \* each line: the socket it came from and the
                              \* number of frames written to it by then
    last                      \* what the latest operation did

\* The bot of irc/bot.py, its reconnect strategy and the scheduler it uses.
VARIABLES
    bot_channels,             \* SingleServerIRCBot.channels
    joined,                   \* channels whose own JOIN was confirmed, with no
                              \* own PART, own KICK or disconnect since
    bot_connected,            \* connection.is_connected()
    servers_pos,              \* index in server_list of servers.peek()
    check_scheduled,          \* ExponentialBackoff._check_scheduled
    attempt_count,            \* the next value of ExponentialBackoff.attempt_count
    min_interval,             \* ExponentialBackoff.min_interval
    max_interval,             \* ExponentialBackoff.max_interval
    scheduler_queue,          \* reactor.scheduler: the pending commands
    now,                      \* the clock
    bot_last                  \* the last operation of the bot: what it did

bot_vars == <<bot_channels, joined, bot_connected, servers_pos,
              check_scheduled, attempt_count, min_interval, max_interval,
              scheduler_queue, now, bot_last>>

\* The IRC object of irclib and its delayed commands.
VARIABLES
    delayed_commands,         \* IRC.delayed_commands: (time, function, arguments)
    address,                  \* id() of the function objects
    serial,                   \* how many commands were scheduled so far
    sched_last                \* the last operation on the IRC object

sched_vars == <<delayed_commands, address, serial, sched_last>>

\* What else the library keeps.
VARIABLES
    other                     \* a second ServerConnection of the same Client:
                              \* in Client.connections, _connected, socket

\* The locks of the client and who holds them.
VARIABLES
    mutex,                    \* Client.mutex: the thread that holds it
    event_handling_mutex,     \* Client.event_handling_mutex: its holder
    conn_mutex,               \* ServerConnection.mutex: its holder
    pc                        \* where each thread is

lock_vars == <<mutex, event_handling_mutex, conn_mutex, pc>>

\* The bytes of a server connection.
VARIABLES
    stream,                   \* all the bytes the server sends
    unsent,                   \* those that have not reached the socket yet
    inbox,                    \* those the socket holds, not read yet
    buffer,                   \* ServerConnection.buffer
    delivered,                \* the lines handed to _process_line so far
    line_buffer,              \* LineBuffer.buffer of a LineBuffer fed the stream
    chunks,                   \* the sizes of the chunks it was fed
    emitted                   \* the lines it has yielded, with the length of
                              \* the terminator of each

rx_vars == <<stream, unsent, inbox, buffer, delivered, line_buffer, chunks,
             emitted>>

\* An IRCDict of the program.
VARIABLES
    ircdict,                  \* its entries: key as stored -> value
    dict_last                 \* the last operation on it

text_vars == <<ircdict, dict_last>>

\* A message given to ctcp.dequote.
VARIABLES
    ctcp_message,             \* the message
    ctcp_messages             \* what dequote returned for it

ctcp_vars == <<ctcp_message, ctcp_messages>>

\* The DCCConnection the program has asked the client for.
VARIABLES
    dcc_conn                  \* the object, NoDcc while there is none

ext_vars == <<ctcp_vars, dcc_conn>>

lib_vars == <<other, lock_vars, rx_vars, text_vars, ext_vars>>

client_vars ==
    <<connected, socket, cond, wire, real_nickname, real_server_name,
      welcome_event_triggered, delayed_001, delayed_001_event,
      delayed_001_saw_004, channels, handlers, event_handling_queue,
      connections, password, pc_run, on_connect_pending, lines_received,
      line_mark, last>>

vars == <<connected, socket, cond, wire, real_nickname, real_server_name,
          welcome_event_triggered, delayed_001, delayed_001_event,
          delayed_001_saw_004, channels, handlers, event_handling_queue,
          connections, password, pc_run, on_connect_pending, lines_received,
          line_mark, last,
          bot_channels, joined, bot_connected, servers_pos, check_scheduled,
          attempt_count, min_interval, max_interval, scheduler_queue, now,
          bot_last, delayed_commands, address, serial, sched_last,
          other, mutex, event_handling_mutex, conn_mutex, pc,
          stream, unsent, inbox, buffer, delivered, line_buffer, chunks,
          emitted, ircdict, dict_last, ctcp_message, ctcp_messages,
          dcc_conn>>

Sockets == 1..MaxSock
server == "irc.example.net"
nickname_on_connect == "bestnick"
EmptyDict == [k \in {} |-> <<>>]

\* The program state an operation starts from, with the record of what the
\* operation does: the exception that leaves it, the connected -> not
\* connected transitions, the events handed to Client._handle_event, the
\* handler calls of Client.process and the frames written.
World ==
    [connected |-> connected, socket |-> socket, cond |-> cond, wire |-> wire,
     real_nickname |-> real_nickname, real_server_name |-> real_server_name,
     welcome_event_triggered |-> welcome_event_triggered,
     delayed_001 |-> delayed_001, delayed_001_event |-> delayed_001_event,
     delayed_001_saw_004 |-> delayed_001_saw_004, channels |-> channels,
     handlers |-> handlers, queue |-> event_handling_queue,
     connections |-> connections, on_connect_pending |-> on_connect_pending,
     exc |-> "", halt |-> FALSE, drops |-> 0, handed |-> <<>>,
     processed |-> <<>>, calls |-> <<>>, wrote |-> <<>>,
     \* whether 20 s have passed since the Channel records were made
     late |-> FALSE]

Raise(W, e) == [W EXCEPT !.exc = e]

\* socket.send / socket.write raise socket.error on these sockets.
sender_raises(c) == c \in {"broken", "closed"}

\* socket.close()
socket_close(W, s) == [W EXCEPT !.cond[s] = "closed"]

\* Client._handle_event: queue the event with the handlers to be called.
Client_handle_event(W, event) ==
    LET info == [event |-> event,
                 handlers |-> matching_handlers(W.handlers, event.type)]
    IN [W EXCEPT !.queue = Append(@, info), !.handed = Append(@, info)]

\* ServerConnection._handle_event; the connection's own handler map is
\* emptied by every connect and nothing ever adds to it.
handle_event(W, event) == Client_handle_event(W, event)

RECURSIVE send_raw(_, _)
RECURSIVE disconnect(_, _)

\* A quit that sends nothing.
quit_silent(W, message) == W

\* ServerConnection.quit
quit(W, message) ==
    send_raw(W, <<"QUIT">> \o (IF message = <<>> THEN <<>> ELSE <<" :">> \o message))

\* ServerConnection.disconnect
disconnect(W, message) ==
    IF ~W.connected
    THEN IF W.socket # None
         THEN [socket_close(W, W.socket) EXCEPT !.socket = None]
         ELSE W
    ELSE LET W1 == [W EXCEPT !.connected = FALSE, !.drops = @ + 1]
             W2 == quit(W1, message)
         IN IF W2.exc # "" THEN W2
            ELSE IF W2.socket = None
            THEN Raise(W2, "AttributeError")   \* self.socket.shutdown on None
            ELSE handle_event(
                     [socket_close(W2, W2.socket) EXCEPT !.socket = None],
                     Event("disconnect", server, "", <<message>>))

\* ServerConnection.send_raw
send_raw(W, string) ==
    IF W.socket = None THEN Raise(W, "ServerNotConnectedError")
    ELSE LET p == prep_message(string)
         IN IF p.exc # "" THEN Raise(W, p.exc)
            ELSE IF sender_raises(W.cond[W.socket])
            THEN disconnect(W, <<"Connection reset by peer.">>)
            ELSE [W EXCEPT !.wire[W.socket] = Append(@, p.bytes),
                           !.wrote = Append(@, [sock |-> W.socket,
                                                bytes |-> p.bytes])]

\* ServerConnection.pass_, nick, user, pong, privmsg
pass_(W, pw) == send_raw(W, <<"PASS ", pw>>)
nick(W, newnick) == send_raw(W, <<"NICK ", newnick>>)
user(W, username, realname) ==
    send_raw(W, <<"USER ", username, " 0 * :", realname>>)
pong(W, target) == send_raw(W, <<"PONG ", target>>)
ping(W, target) == send_raw(W, <<"PING ", target>>)
privmsg(W, target, text) == send_raw(W, <<"PRIVMSG ", target, " :">> \o text)

\* ServerConnection.part: channels is a str or a list of str.  The second
\* operand of the isinstance test names the undefined `isintance`, so it
\* raises NameError whenever the first operand is false.
part(W, chans) ==
    IF chans.type = "str"
    THEN send_raw(W, <<"PART ", chans.value>>)
    ELSE Raise(W, "NameError")

\* ServerConnection._do_connect.  pw is the password, factory_raises tells
\* whether connect_factory raises socket.error, s is the socket it returns.
do_connect(W, pw, factory_raises, s) ==
    LET W0 == [W EXCEPT !.welcome_event_triggered = FALSE,
                        !.delayed_001 = FALSE,
                        !.delayed_001_event = NoEvent,
                        !.delayed_001_saw_004 = FALSE]
        W1 == disconnect(W0, IF W0.connected
                             THEN <<"Changing servers">>
                             ELSE <<"Ensure we are disconnected before reconnecting">>)
    IN IF W1.exc # "" THEN W1
       ELSE LET W2 == [W1 EXCEPT !.real_server_name = "",
                                 !.real_nickname = nickname_on_connect]
            IN IF factory_raises THEN Raise(W2, "ServerConnectionError")
               ELSE LET W3 == [W2 EXCEPT !.socket = s, !.cond[s] = "ok",
                                         !.connected = TRUE,
                                         \* threading.Thread(target=_on_connect).start()
                                         !.on_connect_pending = @ + 1]
                        W4 == IF pw # "" THEN pass_(W3, pw) ELSE W3
                        W5 == IF W4.exc # "" THEN W4
                              ELSE nick(W4, nickname_on_connect)
                    IN IF W5.exc # "" THEN W5
                       ELSE user(W5, nickname_on_connect, nickname_on_connect)

\* Client._remove_connection: list.remove raises ValueError when the
\* connection is not in the list; on_disconnect is the do-nothing default.
remove_connection(W) ==
    IF W.connections THEN [W EXCEPT !.connections = FALSE]
    ELSE Raise(W, "ValueError")

\* ServerConnection.close
close(W) ==
    LET W1 == disconnect(W, <<"Closing object">>)
    IN IF W1.exc # "" THEN W1 ELSE remove_connection(W1)

\* The world as the second connection of the client sees it, and the world
\* of the first one again after an operation of the second ended in W1.
as_other(W, c) == [W EXCEPT !.connected = c.connected, !.socket = c.socket]
back(W, W1) ==
    [W1 EXCEPT !.connected = W.connected, !.socket = W.socket,
               !.real_nickname = W.real_nickname,
               !.real_server_name = W.real_server_name,
               !.welcome_event_triggered = W.welcome_event_triggered,
               !.delayed_001 = W.delayed_001,
               !.delayed_001_event = W.delayed_001_event,
               !.delayed_001_saw_004 = W.delayed_001_saw_004]

\* Client.dcc: DCCConnection.__init__ passes the reactor on to
\* object.__init__, which takes no argument, so no DCCConnection is ever
\* made and none is appended to Client.connections.
dcc(W) == Raise(W, "TypeError")

\* Client.disconnect_all: R.w is the world of the first connection, R.other
\* the second connection; an exception ends the loop.
disconnect_all(W, c, message) ==
    LET W1 == IF W.connections THEN disconnect(W, message) ELSE W
    IN IF W1.exc # "" \/ ~c.registered THEN [w |-> W1, other |-> c]
       ELSE LET W2 == disconnect(as_other(W1, c), message)
            IN [w |-> back(W1, W2),
                other |-> [c EXCEPT !.connected = W2.connected,
                                    !.socket = W2.socket]]

\* bytes.find(b"\n") + 1: the place of the first newline, 0 if there is none.
RECURSIVE find_newline(_, _)
find_newline(bytes, i) ==
    IF i > Len(bytes) THEN 0
    ELSE IF bytes[i] = LF THEN i
    ELSE find_newline(bytes, i + 1)

\* ServerConnection.process_data, its first loop: read byte after byte
\* until the buffer has a newline or 600 bytes, or until select finds
\* nothing more to read.  select has found the socket readable before.
RECURSIVE read_available(_, _)
read_available(buf, inb) ==
    IF Len(buf) < 600 /\ find_newline(buf, 1) = 0
    THEN LET buf1 == Append(buf, Head(inb))
         IN IF Tail(inb) = <<>> THEN [buffer |-> buf1, inbox |-> <<>>]
            ELSE read_available(buf1, Tail(inb))
    ELSE [buffer |-> buf, inbox |-> inb]

\* ServerConnection.process_data, its second loop: the lines of the buffer
\* without their \n and \r, the empty ones left out, and what is left.
RECURSIVE take_lines(_, _)
take_lines(buf, lines) ==
    LET next_break == find_newline(buf, 1)
        cut == SubSeq(buf, 1, next_break - 1)
        next_line == IF cut # <<>> /\ cut[Len(cut)] = CR
                     THEN SubSeq(cut, 1, Len(cut) - 1) ELSE cut
    IN IF next_break = 0 THEN [buffer |-> buf, lines |-> lines]
       ELSE take_lines(SubSeq(buf, next_break + 1, Len(buf)),
                       IF next_line = <<>> THEN lines
                       ELSE Append(lines, next_line))

\* ServerConnection.process_data on a readable socket that holds inb.
process_bytes(buf, inb) ==
    LET R == read_available(buf, inb)
    IN IF find_newline(R.buffer, 1) = 0
       THEN [buffer |-> <<>>, inbox |-> R.inbox, lines |-> <<>>]
       ELSE LET T == take_lines(R.buffer, <<>>)
            IN [buffer |-> T.buffer, inbox |-> R.inbox, lines |-> T.lines]

\* process_data, turn after turn of run(), on bytes that are all there.
RECURSIVE in_one_piece(_, _, _)
in_one_piece(buf, inb, lines) ==
    IF inb = <<>> THEN lines
    ELSE LET R == process_bytes(buf, inb)
         IN in_one_piece(R.buffer, R.inbox, lines \o R.lines)

\* LineBuffer.feed
LineBuffer_feed(buf, bytes) == buf \o bytes

\* line_sep_exp.split(buffer) with line_sep_exp = \r?\n: the pieces between
\* the matches, each with the length of the match that ends it, and the
\* last piece.
RECURSIVE line_sep_split(_, _, _)
line_sep_split(bytes, piece, out) ==
    IF bytes = <<>> THEN [pieces |-> out, last |-> piece]
    ELSE IF Len(bytes) >= 2 /\ bytes[1] = CR /\ bytes[2] = LF
    THEN line_sep_split(SubSeq(bytes, 3, Len(bytes)), <<>>,
                        Append(out, [line |-> piece, sep |-> 2]))
    ELSE IF bytes[1] = LF
    THEN line_sep_split(Tail(bytes), <<>>,
                        Append(out, [line |-> piece, sep |-> 1]))
    ELSE line_sep_split(Tail(bytes), Append(piece, bytes[1]), out)

\* A lines() that keeps no unfinished line.
LineBuffer_lines_forgets_rest(buf) ==
    [buffer |-> <<>>, lines |-> line_sep_split(buf, <<>>, <<>>).pieces]

\* LineBuffer.lines: the complete lines; the last, unfinished one is saved.
LineBuffer_lines(buf) ==
    LET R == line_sep_split(buf, <<>>, <<>>)
    IN [buffer |-> R.last, lines |-> R.pieces]

\* ------------------------------------------------------- DCCConnection
\* No DCCConnection, and the object DCCConnection.__init__ would leave.
NoDcc == [made |-> FALSE]
DCCConnection(dcctype) ==
    [made |-> TRUE, connected |-> FALSE, passive |-> FALSE,
     dcctype |-> dcctype, socket |-> "None", buffer |-> <<>>,
     listed |-> TRUE]

\* DCCConnection.connect: the socket connects or raises socket.error.
DCC_connect(W, D, ok) ==
    IF ~ok THEN [w |-> Raise(W, "DCCConnectionError"),
                 conn |-> [D EXCEPT !.buffer = <<>>, !.socket = "open"]]
    ELSE [w |-> [W EXCEPT !.on_connect_pending = @ + 1],
          conn |-> [D EXCEPT !.buffer = <<>>, !.socket = "open",
                             !.connected = TRUE]]

\* Client._remove_connection for a DCCConnection: after the remove it
\* reads connection.socket, which disconnect has deleted.
DCC_remove_connection(W, D) ==
    IF ~D.listed THEN [w |-> Raise(W, "ValueError"), conn |-> D]
    ELSE [w |-> IF D.socket = "deleted" THEN Raise(W, "AttributeError")
                ELSE W,
          conn |-> [D EXCEPT !.listed = FALSE]]

\* DCCConnection.disconnect
DCC_disconnect(W, D, message) ==
    IF ~D.connected THEN [w |-> W, conn |-> D]
    ELSE DCC_remove_connection(
             handle_event(W, Event("dcc_disconnect", "peer", "",
                                   <<message>>)),
             [D EXCEPT !.connected = FALSE, !.socket = "deleted"])

\* DCCConnection.process_data on a connection that does not listen; recv
\* gives data, nothing, or raises socket.error.
RECURSIVE DCC_events(_, _)
DCC_events(W, parts) ==
    IF parts = <<>> THEN W
    ELSE DCC_events(handle_event(W, Event("dccmsg", "peer", NoneStr,
                                          <<Head(parts)>>)),
                    Tail(parts))

DCC_process_data(W, D, recv) ==
    IF recv.kind \in {"error", "eof"}
    THEN DCC_disconnect(W, D, "Connection reset by peer")
    ELSE IF D.dcctype = "chat"
    THEN LET R == LineBuffer_lines(LineBuffer_feed(D.buffer, recv.bytes))
             D1 == [D EXCEPT !.buffer = R.buffer]
         IN IF ByteLen(R.buffer) > 16384
            THEN DCC_disconnect(W, D1, "")
            ELSE [w |-> DCC_events(W, [i \in 1..Len(R.lines) |->
                                          R.lines[i].line]),
                  conn |-> D1]
    ELSE [w |-> DCC_events(W, <<recv.bytes>>), conn |-> D]

\* DCCConnection.send_bytes: socket.send passes or raises socket.error.
DCC_send_bytes(W, D, ok) ==
    IF D.socket = "deleted" THEN [w |-> Raise(W, "AttributeError"), conn |-> D]
    ELSE IF ok THEN [w |-> W, conn |-> D]
    ELSE DCC_disconnect(W, D, "Connection reset by peer.")

\* One call of the program on its DCCConnection.
DCC_call(W, D, step) ==
    CASE step.call = "connect" -> DCC_connect(W, D, TRUE)
      [] step.call = "process_data" -> DCC_process_data(W, D, step.recv)
      [] step.call = "send_bytes" -> DCC_send_bytes(W, D, step.ok)
      [] OTHER -> DCC_disconnect(W, D, "bye")

\* The calls one after the other; an exception ends the program.
RECURSIVE DCC_calls(_, _, _)
DCC_calls(W, D, steps) ==
    IF steps = <<>> \/ W.exc # "" THEN [w |-> W, conn |-> D]
    ELSE LET R == DCC_call(W, D, Head(steps))
         IN DCC_calls(R.w, R.conn, Tail(steps))

\* The program asks the client for a DCCConnection with Client.dcc(dcctype)
\* and goes on to use it.
dcc_program(W, dcctype, steps) ==
    LET W1 == dcc(W)
    IN IF W1.exc # "" THEN [w |-> W1, conn |-> NoDcc]
       ELSE DCC_calls(W1, DCCConnection(dcctype), steps)

\* string.ascii_uppercase and string.ascii_lowercase
ascii_uppercase ==
    <<"A", "B", "C", "D", "E", "F", "G", "H", "I", "J", "K", "L", "M",
      "N", "O", "P", "Q", "R", "S", "T", "U", "V", "W", "X", "Y", "Z">>
ascii_lowercase ==
    <<"a", "b", "c", "d", "e", "f", "g", "h", "i", "j", "k", "l", "m",
      "n", "o", "p", "q", "r", "s", "t", "u", "v", "w", "x", "y", "z">>

\* IRCFoldedCase.translation: dict(zip(uppercase + r"[]\^", lowercase + r"{}|~"))
translation ==
    LET from == ascii_uppercase \o <<"[", "]", "\\", "^">>
        to == ascii_lowercase \o <<"{", "}", "|", "~">>
    IN [c \in {from[i] : i \in 1..Len(from)} |->
           to[CHOOSE i \in 1..Len(from) : from[i] = c]]

\* str.translate(table): a character the table lacks stays as it is.
translate(string, table) ==
    [i \in 1..Len(string) |->
        IF string[i] \in DOMAIN table THEN table[string[i]] ELSE string[i]]

\* FoldedCase.lower: str.lower(), which knows nothing of the brackets and
\* lowers the letters beyond ASCII too.
FoldedCase_lower(string) ==
    translate(string,
              [c \in {ascii_uppercase[i] : i \in 1..26} \cup {"U+00C9"} |->
                  IF c = "U+00C9" THEN "U+00E9"
                  ELSE ascii_lowercase[CHOOSE i \in 1..26 :
                                          ascii_uppercase[i] = c]])

\* IRCFoldedCase.lower
IRCFoldedCase_lower(string) == translate(string, translation)

\* FoldedCase.__eq__ and __hash__ on two keys that key_transform has made
\* IRCFoldedCase: equal lower(), and so equal hash.
FoldedCase_eq(a, b) == IRCFoldedCase_lower(a) = IRCFoldedCase_lower(b)

\* The stored keys of d that a dict finds for key.
dict_find(d, key) == {s \in DOMAIN d : FoldedCase_eq(s, key)}

\* KeyTransformingDict.__setitem__, __getitem__, __contains__, __delitem__,
\* pop and setdefault on an IRCDict: d is the dict after, result what is
\* returned.  A dict keeps the key it has when the new one is equal to it.
IRCDict_setitem(d, key, val) ==
    [d |-> IF dict_find(d, key) = {} THEN (key :> val) @@ d
           ELSE [d EXCEPT ![CHOOSE s \in dict_find(d, key) : TRUE] = val],
     result |-> NoneStr, exc |-> ""]
IRCDict_getitem(d, key) ==
    IF dict_find(d, key) = {}
    THEN [d |-> d, result |-> NoneStr, exc |-> "KeyError"]
    ELSE [d |-> d, result |-> d[CHOOSE s \in dict_find(d, key) : TRUE],
          exc |-> ""]
IRCDict_contains(d, key) ==
    [d |-> d, result |-> dict_find(d, key) # {}, exc |-> ""]
IRCDict_delitem(d, key) ==
    IF dict_find(d, key) = {}
    THEN [d |-> d, result |-> NoneStr, exc |-> "KeyError"]
    ELSE [d |-> [s \in DOMAIN d \ dict_find(d, key) |-> d[s]],
          result |-> NoneStr, exc |-> ""]
IRCDict_pop(d, key) ==
    [IRCDict_delitem(d, key) EXCEPT !.result = IRCDict_getitem(d, key).result]
IRCDict_setdefault(d, key, default) ==
    IF dict_find(d, key) = {}
    THEN [d |-> (key :> default) @@ d, result |-> default, exc |-> ""]
    ELSE IRCDict_getitem(d, key)

\* Client.add_global_handler
add_global_handler(W, event, handler, priority) ==
    LET event_handlers == dict_get(W.handlers, event)
        added == insort(event_handlers, PrioritizedHandler(priority, handler))
    IN [W EXCEPT !.handlers = (event :> added) @@ @]

\* list.remove(x): the first item equal to x goes.
RECURSIVE list_remove(_, _)
list_remove(a, x) ==
    IF a = <<>> THEN a
    ELSE IF Head(a) = x THEN Tail(a)
    ELSE <<Head(a)>> \o list_remove(Tail(a), x)

\* The loop of remove_global_handler: `for h in self.handlers[event]` goes
\* on by index while the body removes from the same list.
RECURSIVE remove_matching(_, _, _)
remove_matching(a, i, handler) ==
    IF i > Len(a) THEN a
    ELSE IF a[i].callback = handler
    THEN remove_matching(list_remove(a, a[i]), i + 1, handler)
    ELSE remove_matching(a, i + 1, handler)

\* Client.remove_global_handler: the world it leaves and what it returns.
remove_global_handler(W, event, handler) ==
    IF event \notin DOMAIN W.handlers THEN [w |-> W, result |-> 0]
    ELSE [w |-> [W EXCEPT !.handlers[event] = remove_matching(@, 1, handler)],
          result |-> 1]

\* Channel._should_trigger_delayed_join_event, of a record that holds an
\* event back: topic and users are known, or 20 s have passed.
should_trigger_delayed_join_event(W, channel) ==
    \/ W.channels[channel].topic /\ W.channels[channel].users
    \/ W.late

\* The helper trigger_delayed_join of _process_line.
trigger_delayed_join(W, channel, force) ==
    IF channel \notin DOMAIN W.channels THEN W          \* KeyError: pass
    ELSE IF W.channels[channel].delayed_join_event = NoEvent THEN W
    ELSE IF should_trigger_delayed_join_event(W, channel) \/ force
    THEN handle_event(
             [W EXCEPT !.channels[channel].delayed_join_event = NoEvent],
             W.channels[channel].delayed_join_event)
    ELSE W

\* The currenttopic and endofnames branches of _process_line: the topic or
\* the users of a known channel are set, then trigger_delayed_join.
set_topic(W, channel) ==
    IF channel \notin DOMAIN W.channels THEN W
    ELSE trigger_delayed_join([W EXCEPT !.channels[channel].topic = TRUE],
                              channel, FALSE)
set_users(W, channel) ==
    IF channel \notin DOMAIN W.channels THEN W
    ELSE trigger_delayed_join([W EXCEPT !.channels[channel].users = TRUE],
                              channel, FALSE)

\* ServerConnection._handle_other; n tags the event with its line.
handle_other(W, arguments, command, source, n) ==
    IF command \in {"quit", "ping"} /\ arguments = <<>>
    THEN Raise(W, "IndexError")
    ELSE
    LET target == IF command = "quit" THEN NoneStr
                  ELSE IF arguments = <<>> THEN NoneStr ELSE arguments[1]
        args == IF command = "quit" THEN <<arguments[1]>>
                ELSE IF command = "ping" THEN arguments
                ELSE Tail(arguments)
        cmd == IF command = "mode" /\ ~is_channel(target) THEN "umode" ELSE command
        event == [Event(cmd, source, target, args) EXCEPT !.line = n]
    IN IF cmd = "welcome" /\ ~W.delayed_001
       THEN [W EXCEPT !.delayed_001 = TRUE, !.delayed_001_event = event]
       ELSE IF cmd = "join" /\ target # NoneStr /\ target \in DOMAIN W.channels
       THEN [W EXCEPT !.channels[target].delayed_join_event = event]
       ELSE LET W1 == handle_event(W, event)
            IN IF cmd = "featurelist"
               THEN IF W1.delayed_001
                    THEN [handle_event(W1, W1.delayed_001_event)
                             EXCEPT !.welcome_event_triggered = TRUE,
                                    !.delayed_001 = FALSE]
                    ELSE W1
               ELSE IF cmd = "myinfo" /\ W1.delayed_001
               THEN [W1 EXCEPT !.delayed_001_saw_004 = TRUE]
               ELSE W1

\* ctcp.DELIMITER, and the tag ACTION as the characters of a message body.
DELIMITER == "0x01"
action_tag == <<"A", "C", "T", "I", "O", "N">>

\* str.split(sep): the chunks between the separators.
RECURSIVE str_split(_, _, _, _)
str_split(string, sep, piece, out) ==
    IF string = <<>> THEN Append(out, piece)
    ELSE IF Head(string) = sep
    THEN str_split(Tail(string), sep, <<>>, Append(out, piece))
    ELSE str_split(Tail(string), sep, Append(piece, Head(string)), out)

\* tuple(chunk.split(" ", 1)): the tag, and the data if there is a space.
split_once(chunk) ==
    LET spaces == {i \in 1..Len(chunk) : chunk[i] = " "}
        i == CHOOSE i \in spaces : \A j \in spaces : i <= j
    IN IF spaces = {} THEN <<chunk>>
       ELSE <<SubSeq(chunk, 1, i - 1), SubSeq(chunk, i + 1, Len(chunk))>>

\* ctcp._gen_messages; i counts from 0 as in the code.  A message is
\* tagged (a tuple) or not (a string), arguments is list(m) or [m].
RECURSIVE gen_messages(_, _, _)
gen_messages(parts, i, out) ==
    IF i < Len(parts) - 1
    THEN LET out1 == IF Len(parts[i + 1]) > 0
                     THEN Append(out, [tagged |-> FALSE,
                                       arguments |-> <<parts[i + 1]>>])
                     ELSE out
             out2 == IF i < Len(parts) - 2
                     THEN Append(out1, [tagged |-> TRUE,
                                        arguments |-> split_once(parts[i + 2])])
                     ELSE out1
         IN gen_messages(parts, i + 2, out2)
    ELSE IF Len(parts) % 2 = 0
    THEN Append(out, [tagged |-> FALSE,
                      arguments |-> <<<<DELIMITER>> \o parts[Len(parts)]>>])
    ELSE out

\* ctcp.LOW_LEVEL_QUOTE and ctcp._low_level_replace
LOW_LEVEL_QUOTE == "0x10"
low_level_replace(ch) ==
    CASE ch = "0" -> "0x00"
      [] ch = "n" -> LF
      [] ch = "r" -> CR
      [] OTHER -> ch

\* low_level_regexp.sub(_low_level_replace, message): the quote and the
\* character after it, unless that is a newline, become one character.
RECURSIVE low_level_sub(_)
low_level_sub(message) ==
    IF message = <<>> THEN <<>>
    ELSE IF /\ Head(message) = LOW_LEVEL_QUOTE
            /\ Len(message) >= 2
            /\ message[2] # LF
    THEN <<low_level_replace(message[2])>>
             \o low_level_sub(SubSeq(message, 3, Len(message)))
    ELSE <<Head(message)>> \o low_level_sub(Tail(message))

\* ctcp.dequote
dequote(message) ==
    LET substituted == low_level_sub(message)
    IN IF \A i \in 1..Len(substituted) : substituted[i] # DELIMITER
       THEN <<[tagged |-> FALSE, arguments |-> <<substituted>>]>>
       ELSE gen_messages(str_split(substituted, DELIMITER, <<>>, <<>>),
                         0, <<>>)

\* ServerConnection._handle_message: the loop over the messages.
RECURSIVE handle_messages(_, _, _, _, _)
handle_messages(W, messages, command, source, target) ==
    IF messages = <<>> THEN W
    ELSE LET m == Head(messages)
             cmd == IF ~m.tagged THEN command
                    ELSE IF command \in {"privmsg", "pubmsg"} THEN "ctcp"
                    ELSE "ctcpreply"
             W1 == handle_event(W, Event(cmd, source, target, m.arguments))
             W2 == IF m.tagged /\ cmd = "ctcp" /\ m.arguments[1] = action_tag
                   THEN handle_event(W1, Event("action", source, target,
                                               Tail(m.arguments)))
                   ELSE W1
         IN handle_messages(W2, Tail(messages), cmd, source, target)

\* ServerConnection._handle_message
handle_message(W, arguments, command, source) ==
    IF Len(arguments) < 2
    THEN Raise(W, "ValueError")          \* target, msg = arguments[:2]
    ELSE
    LET target == arguments[1]
        cmd == IF command = "privmsg"
               THEN IF is_channel(target) THEN "pubmsg" ELSE "privmsg"
               ELSE IF is_channel(target) THEN "pubnotice" ELSE "privnotice"
    IN handle_messages(W, dequote(arguments[2]), cmd, source, target)

\* ServerConnection._process_line on a PRIVMSG or NOTICE line from bob.
process_message_line(W, command, arguments) ==
    LET W1 == handle_event(W, Event("all_raw_messages", W.real_server_name,
                                    NoneStr, <<command>>))
        W2 == IF W1.real_server_name = ""
              THEN [W1 EXCEPT !.real_server_name = "bob!b@h"] ELSE W1
        W3 == trigger_delayed_join(W2, lower(arguments[1]), TRUE)
    IN IF W3.exc # "" THEN W3
       ELSE handle_message(W3, arguments, command, "bob!b@h")

\* The branch of _process_line for a NICK message.
process_nick(W, source, arguments) ==
    IF source = NoneStr THEN Raise(W, "AttributeError")    \* None.nick
    ELSE IF lower(nick_of(source)) = lower(W.real_nickname)
    THEN [W EXCEPT !.real_nickname = arguments[1]]
    \* `for channel in self._channels` gives the keys of the dict, and a
    \* str has no attribute users
    ELSE IF DOMAIN W.channels # {} THEN Raise(W, "AttributeError")
    ELSE W

\* The branch of _process_line for a QUIT message.
process_quit(W, arguments) ==
    IF arguments = <<>> THEN Raise(W, "IndexError")        \* arguments[0]
    \* `for channel in self._channels` gives the keys of the dict, and a
    \* str has no attribute name
    ELSE IF /\ lower(arguments[1]) # lower(W.real_nickname)
            /\ DOMAIN W.channels # {}
    THEN Raise(W, "AttributeError")
    ELSE W

\* _process_line, "Special handling of events for internal use".  The
\* branches are those of the commands the model's server sends: part,
\* kick, kill and the names and topic replies are not among them.
\* del(self._channels[name]) with its KeyError passed over.
del_own_channel(W, name) ==
    [W EXCEPT !.channels = [k \in DOMAIN @ \ {name} |-> @[k]]]

process_internal(W, command, source, arguments) ==
    CASE command = "nick" /\ Len(arguments) >= 1 ->
             process_nick(W, source, arguments)
      [] command = "welcome" ->
             [W EXCEPT !.real_nickname = arguments[1]]
      [] command = "join" /\ Len(arguments) >= 1 ->
             IF lower(nick_of(source)) = lower(W.real_nickname)
             THEN [W EXCEPT !.channels =
                      (lower(arguments[1]) :>
                          [name |-> arguments[1], topic |-> FALSE,
                           users |-> FALSE,
                           delayed_join_event |-> NoEvent]) @@ @]
             \* self.channels takes self.mutex, which run() holds
             ELSE Raise(W, "blocked")
      [] command = "part" /\ Len(arguments) >= 1 ->
             IF lower(nick_of(source)) = lower(W.real_nickname)
             THEN del_own_channel(W, lower(arguments[1]))
             ELSE Raise(W, "blocked")
      [] command = "kick" /\ Len(arguments) >= 2 ->
             IF lower(arguments[2]) = lower(W.real_nickname)
             THEN del_own_channel(W, lower(arguments[1]))
             ELSE Raise(W, "blocked")
      [] command = "quit" -> process_quit(W, arguments)
      [] command = "currenttopic" /\ Len(arguments) >= 3 ->
             set_topic(W, lower(arguments[2]))
      [] command = "endofnames" /\ Len(arguments) >= 2 ->
             set_users(W, lower(arguments[2]))
      [] command \in {"privmsg", "notice", "mode", "topic"} ->
             IF arguments = <<>> THEN Raise(W, "IndexError")
             ELSE trigger_delayed_join(W, lower(arguments[1]), TRUE)
      [] OTHER -> W

\* _process_line, "Trigger user callbacks"
process_callbacks(W, command, source, arguments, n) ==
    IF W.exc # "" THEN W
    ELSE IF command \in {"privmsg", "notice"}
    THEN handle_message(W, arguments, command, source)
    ELSE handle_other(W, arguments, command, source, n)

\* `if source and not self.real_server_name`
set_real_server_name(W, prefix) ==
    IF prefix # "" /\ W.real_server_name = ""
    THEN [W EXCEPT !.real_server_name = prefix] ELSE W

\* ServerConnection._process_line on a line the regular expression has
\* split into prefix, command (numerics already named) and arguments; a
\* line it cannot split has no command, and match() gives None.  n is the
\* line's number.
process_line(W, line, n) ==
    LET raw == [Event("all_raw_messages", W.real_server_name, NoneStr,
                      <<line.raw>>) EXCEPT !.line = n]
        source == IF line.prefix = "" THEN NoneStr ELSE line.prefix
    IN IF line.command = ""
       THEN Raise(handle_event(W, raw), "AttributeError")  \* None.group
       ELSE process_callbacks(
                process_internal(
                    set_real_server_name(handle_event(W, raw), line.prefix),
                    line.command, source, line.arguments),
                line.command, source, line.arguments, n)

\* ServerConnection.process_data, one wake of it: a socket error or a
\* zero-byte read, or one complete line.
process_data(W, input, n) ==
    IF input.kind = "hangup"
    THEN disconnect(W, <<"Connection reset by peer">>)
    ELSE process_line(W, input, n)

\* One turn of the loop of ServerConnection.run, under self.mutex: input is
\* what select and recv give (nothing, a hang-up, a line), elapsed tells
\* whether the 10 s of the held-back welcome have passed.
run_iteration(W, input, n, elapsed) ==
    IF W.socket = None THEN W
    ELSE LET W1 == IF input.kind = "nothing" THEN W
                   ELSE process_data(W, input, n)
         IN IF W1.exc # "" THEN W1
            ELSE IF W1.delayed_001 /\ W1.delayed_001_saw_004 /\ elapsed
            THEN [handle_event([W1 EXCEPT !.welcome_event_triggered = TRUE],
                               W1.delayed_001_event)
                     EXCEPT !.delayed_001 = FALSE]
            ELSE W1

\* --------------------------------------------------------------- dispatch
\* The callbacks of the model.  _ping_ponger is the library's; the others
\* stand for user handlers: what they return and whether they send.
callback(W, cb, event) ==
    CASE cb = "_ping_ponger" -> [w |-> pong(W, event.target), result |-> "None"]
      [] cb = "says_hi" -> [w |-> privmsg(W, "#c", <<"hi">>), result |-> "None"]
      [] cb = "returns_false" -> [w |-> W, result |-> "False"]
      [] cb = "returns_no_more" -> [w |-> W, result |-> "NO MORE"]
      [] OTHER -> [w |-> W, result |-> "None"]

\* A handler loop that stops on the string NO MORE instead of False.
stops_dispatch_on_no_more(result) == result = "NO MORE"

\* Client.process: `if result is False: return`
stops_dispatch(result) == result = "False"

\* The handler loop of Client.process for one queued event.
RECURSIVE call_handlers(_, _, _)
call_handlers(W, info, i) ==
    IF i > Len(info.handlers) THEN W
    ELSE LET h == info.handlers[i]
             R == callback(W, h.callback, info.event)
             entry == [k |-> Len(W.processed), handler |-> h,
                       result |-> IF R.w.exc # "" THEN "raised" ELSE R.result,
                       socket |-> W.socket,
                       cond |-> IF W.socket = None THEN "none"
                                ELSE W.cond[W.socket],
                       wrote |-> SubSeq(R.w.wrote, Len(W.wrote) + 1,
                                        Len(R.w.wrote))]
             W1 == [R.w EXCEPT !.calls = Append(@, entry)]
         IN IF W1.exc # "" THEN W1
            ELSE IF stops_dispatch(R.result) THEN [W1 EXCEPT !.halt = TRUE]
            ELSE call_handlers(W1, info, i + 1)

\* Client.process: take queued events until the queue is empty, a handler
\* returns False or a handler raises.
RECURSIVE process(_)
process(W) ==
    IF W.queue = <<>> THEN W
    ELSE LET info == Head(W.queue)
             W1 == [W EXCEPT !.queue = Tail(@),
                             !.processed = Append(@, info)]
             W2 == call_handlers(W1, info, 1)
         IN IF W2.exc # "" \/ W2.halt THEN W2 ELSE process(W2)

\* -------------------------------------------------- bot: reconnect policy
MaxAttempts == 3    \* connection attempts the backoff counts in one run
MaxTime == 4        \* the clock stops here
NServers == 3       \* len(server_list)

\* random.random() as a fraction num/den in [0, 1).
Randoms == {[num |-> 0, den |-> 1], [num |-> 1, den |-> 2],
            [num |-> 99, den |-> 100]}

\* The bot's state an operation starts from, with the record of what the
\* operation does: the exception that leaves it, the delays handed to the
\* scheduler, the servers a connection was attempted to, the disconnect
\* events handled.
BotWorld ==
    [channels |-> bot_channels, connected |-> bot_connected,
     servers_pos |-> servers_pos, check_scheduled |-> check_scheduled,
     attempt_count |-> attempt_count, queue |-> scheduler_queue,
     exc |-> "", delays |-> <<>>, attempts |-> <<>>, disconnects |-> 0,
     fired |-> <<>>]

\* min, max and int(x * random.random())
Min(a, b) == IF a < b THEN a ELSE b
first_of(a, b) == a
Max(a, b) == IF a > b THEN a ELSE b
jitter(intvl, r) == (intvl * r.num) \div r.den

\* scheduler.execute_after(delay, function): the command comes due at
\* now + delay and goes behind the pending commands that are due no later.
execute_after(queue, delay, function) ==
    LET cmd == [due |-> now + delay, function |-> function]
        before == SelectSeq(queue, LAMBDA c : c.due <= cmd.due)
        behind == SelectSeq(queue, LAMBDA c : c.due > cmd.due)
    IN before \o <<cmd>> \o behind

\* ExponentialBackoff.run; r is the value of random.random().
recon_run_unguarded(B, r) ==
    LET intvl == Max(jitter(Min(2 ^ B.attempt_count - 1, max_interval), r),
                     min_interval)
    IN [B EXCEPT !.attempt_count = @ + 1,
                 !.queue = execute_after(@, intvl, "check"),
                 !.delays = Append(@, intvl),
                 !.check_scheduled = TRUE]
recon_run(B, r) ==
    IF B.check_scheduled THEN B
    ELSE LET intvl1 == 2 ^ B.attempt_count - 1
             intvl2 == Min(intvl1, max_interval)
             intvl3 == jitter(intvl2, r)
             intvl4 == Max(intvl3, min_interval)
         IN [B EXCEPT !.attempt_count = @ + 1,
                      !.queue = execute_after(@, intvl4, "check"),
                      !.delays = Append(@, intvl4),
                      !.check_scheduled = TRUE]

\* SingleServerIRCBot._on_disconnect
on_disconnect_keeps_channels(B, r) ==
    recon_run([B EXCEPT !.disconnects = @ + 1], r)
on_disconnect(B, r) ==
    recon_run([B EXCEPT !.channels = EmptyDict, !.disconnects = @ + 1], r)

\* connection.disconnect(): on a connected connection it hangs up and the
\* disconnect event reaches _on_disconnect.
connection_disconnect(B, r) ==
    IF ~B.connected THEN B
    ELSE on_disconnect([B EXCEPT !.connected = FALSE], r)

\* connection.connect(): a connected connection is disconnected first; ok
\* tells whether the socket opens (ServerConnectionError otherwise).
connection_connect(B, r, ok) ==
    LET B1 == connection_disconnect(B, r)
    IN IF ok THEN [B1 EXCEPT !.connected = TRUE]
       ELSE [B1 EXCEPT !.exc = "ServerConnectionError"]

\* SingleServerIRCBot._connect: ServerConnectionError is swallowed.
bot_connect(B, r, ok) ==
    LET B1 == connection_connect(
                  [B EXCEPT !.attempts = Append(@, B.servers_pos)], r, ok)
    IN IF B1.exc = "ServerConnectionError" THEN [B1 EXCEPT !.exc = ""]
       ELSE B1

\* SingleServerIRCBot.jump_server: next(self.servers) on the cycle.
jump_server_same(B, r, ok) == bot_connect(connection_disconnect(B, r), r, ok)
jump_server(B, r, ok) ==
    LET B1 == connection_disconnect(B, r)
        B2 == [B1 EXCEPT !.servers_pos = (@ + 1) % NServers]
    IN bot_connect(B2, r, ok)

\* ExponentialBackoff.check
check(B, r, ok) ==
    LET B1 == [B EXCEPT !.check_scheduled = FALSE]
    IN IF ~B1.connected THEN jump_server(recon_run(B1, r), r, ok)
       ELSE B1

\* ----------------------------------------------- bot: channel bookkeeping
\* IRCFoldedCase.lower() on the names of the model: the key of an IRCDict.
irc_lower(string) ==
    CASE string = "Alice" -> "alice"
      [] string = "#C" -> "#c"
      [] OTHER -> string

\* IRCDict.key_transform: a key that is not a string (None) stays as it is.
key_transform(key) == IF key = NoneStr THEN NoneStr ELSE irc_lower(key)

\* Channel.user_modes and the unary modes of parse_channel_modes.
user_modes == {"o", "v", "q", "h", "a"}
unary_modes == {"b", "k", "l", "v", "o", "h", "q"}

\* FeatureSet._set_rfc1459_prefixes
features_prefix == ("@" :> "o") @@ ("+" :> "v")

\* connection.get_nickname()
bot_nickname == nickname_on_connect

\* Channel.__init__: the keys of _users and of each mode_users[m], and the
\* modes dict with its values.
NewChannel ==
    [users |-> {}, mode_users |-> [m \in user_modes |-> {}], modes |-> <<>>]

\* Channel.has_user, add_user, remove_user, change_nick
has_user(C, who) == key_transform(who) \in C.users
add_user(C, who) == [C EXCEPT !.users = @ \cup {key_transform(who)}]
remove_user(C, who) ==
    [C EXCEPT !.users = @ \ {key_transform(who)},
              !.mode_users = [m \in user_modes |-> @[m] \ {key_transform(who)}]]
change_nick_users_only(C, before, after) ==
    [C EXCEPT !.users = (@ \ {key_transform(before)})
                            \cup {key_transform(after)}]
change_nick(C, before, after) ==
    LET b == key_transform(before)
        a == key_transform(after)
    IN [C EXCEPT !.users = (@ \ {b}) \cup {a},
                 !.mode_users = [m \in user_modes |->
                                    IF b \in @[m] THEN (@[m] \ {b}) \cup {a}
                                    ELSE @[m]]]

\* Channel.set_mode and clear_mode
set_mode(C, mode, value) ==
    IF mode \in user_modes
    THEN [C EXCEPT !.mode_users[mode] = @ \cup {key_transform(value)}]
    ELSE [C EXCEPT !.modes = (mode :> value) @@ @]
clear_mode(C, mode, value) ==
    IF mode \in user_modes
    THEN [C EXCEPT !.mode_users[mode] = @ \ {key_transform(value)}]
    ELSE [C EXCEPT !.modes = [k \in DOMAIN @ \ {mode} |-> @[k]]]

\* irc.modes._parse_modes after the sign test: chars are the characters of
\* the mode part, args the words behind it.
RECURSIVE parse_mode_chars(_, _, _, _)
parse_mode_chars(chars, args, sign, unary) ==
    IF chars = <<>> THEN <<>>
    ELSE IF Head(chars) \in {"+", "-"}
    THEN parse_mode_chars(Tail(chars), args, Head(chars), unary)
    ELSE LET takes == Head(chars) \in unary /\ args # <<>>
             arg == IF takes THEN Head(args) ELSE NoneStr
         IN <<[sign |-> sign, mode |-> Head(chars), argument |-> arg]>>
                \o parse_mode_chars(Tail(chars),
                                    IF takes THEN Tail(args) ELSE args,
                                    sign, unary)

\* str.split() of one argument behind the mode part: its words.
words(argument) ==
    CASE argument = "my key" -> <<"my", "key">>
      [] argument = "" -> <<>>
      [] OTHER -> <<argument>>

\* " ".join(event.arguments) and the parts[1:] of its split().
RECURSIVE joined_words(_)
joined_words(arguments) ==
    IF arguments = <<>> THEN <<>>
    ELSE words(Head(arguments)) \o joined_words(Tail(arguments))

\* irc.modes.parse_channel_modes on the arguments of a mode event, joined
\* with spaces by _on_mode.
parse_channel_modes(arguments) ==
    IF arguments = <<>> THEN <<>>
    ELSE IF arguments[1] = <<>> THEN <<>>
    ELSE IF arguments[1][1] \notin {"+", "-"} THEN <<>>
    ELSE parse_mode_chars(arguments[1], joined_words(Tail(arguments)), "",
                          unary_modes)

\* The loop of _on_mode over the parsed modes.
RECURSIVE apply_modes(_, _)
apply_modes(C, modes) ==
    IF modes = <<>> THEN C
    ELSE LET m == Head(modes)
         IN apply_modes(IF m.sign = "+" THEN set_mode(C, m.mode, m.argument)
                        ELSE clear_mode(C, m.mode, m.argument),
                        Tail(modes))

\* self.channels[name] on a name the IRCDict does not hold raises KeyError.
has_channel(B, name) == irc_lower(name) \in DOMAIN B.channels
KeyError(B) == [B EXCEPT !.exc = "KeyError"]
del_channel(B, name) ==
    [B EXCEPT !.channels =
         [k \in DOMAIN @ \ {irc_lower(name)} |-> @[k]]]

\* SingleServerIRCBot._on_join
on_join(B, event) ==
    LET ch == event.target
        who == nick_of(event.source)
        B1 == IF who = bot_nickname
              THEN [B EXCEPT !.channels = (irc_lower(ch) :> NewChannel) @@ @]
              ELSE B
    IN IF ~has_channel(B1, ch) THEN KeyError(B1)
       ELSE [B1 EXCEPT !.channels[irc_lower(ch)] = add_user(@, who)]

\* SingleServerIRCBot._on_kick
on_kick(B, event) ==
    LET who == event.arguments[1]
        channel == event.target
    IN IF ~has_channel(B, channel) THEN KeyError(B)
       ELSE IF who = bot_nickname THEN del_channel(B, channel)
       ELSE [B EXCEPT !.channels[irc_lower(channel)] = remove_user(@, who)]

\* SingleServerIRCBot._on_part
on_part(B, event) ==
    LET who == nick_of(event.source)
        channel == event.target
    IN IF ~has_channel(B, channel) THEN KeyError(B)
       ELSE IF who = bot_nickname THEN del_channel(B, channel)
       ELSE [B EXCEPT !.channels[irc_lower(channel)] = remove_user(@, who)]

\* SingleServerIRCBot._on_quit
on_quit(B, event) ==
    LET who == nick_of(event.source)
    IN [B EXCEPT !.channels =
            [k \in DOMAIN @ |-> IF has_user(@[k], who)
                                THEN remove_user(@[k], who) ELSE @[k]]]

\* SingleServerIRCBot._on_nick
on_nick(B, event) ==
    LET before == nick_of(event.source)
        after == event.target
    IN [B EXCEPT !.channels =
            [k \in DOMAIN @ |-> IF has_user(@[k], before)
                                THEN change_nick(@[k], before, after)
                                ELSE @[k]]]

\* SingleServerIRCBot._on_mode
on_mode(B, event) ==
    IF ~is_channel(event.target) THEN B
    ELSE IF ~has_channel(B, event.target) THEN KeyError(B)
    ELSE [B EXCEPT !.channels[irc_lower(event.target)] =
              apply_modes(@, parse_channel_modes(event.arguments))]

\* The loop of _on_namreply over the names: a name is its first character,
\* when that is a prefix, and the rest.
RECURSIVE add_names(_, _)
add_names(C, names) ==
    IF names = <<>> THEN C
    ELSE LET n == Head(names)
             C1 == IF n.prefix \in DOMAIN features_prefix
                   THEN set_mode(C, features_prefix[n.prefix], n.nick)
                   ELSE C
         IN add_names(add_user(C1, n.nick), Tail(names))

\* SingleServerIRCBot._on_namreply
on_namreply(B, event) ==
    LET channel == event.arguments[2]
        nick_list == event.arguments[3]
    IN IF channel = "*" THEN B
       ELSE IF nick_list = <<>> THEN B
       ELSE IF ~has_channel(B, channel) THEN KeyError(B)
       ELSE [B EXCEPT !.channels[irc_lower(channel)] = add_names(@, nick_list)]

\* The handler the bot registered for the event's type.
bot_handler(B, event, r) ==
    CASE event.type = "disconnect" -> on_disconnect(B, r)
      [] event.type = "join" -> on_join(B, event)
      [] event.type = "kick" -> on_kick(B, event)
      [] event.type = "mode" -> on_mode(B, event)
      [] event.type = "namreply" -> on_namreply(B, event)
      [] event.type = "nick" -> on_nick(B, event)
      [] event.type = "part" -> on_part(B, event)
      [] event.type = "quit" -> on_quit(B, event)
      [] OTHER -> B

\* ------------------------------------------------ irclib: delayed commands
MaxScheduled == 3   \* calls of execute_delayed in one run

Functions == {"f1", "f2"}

\* The orders in which id() can put the function objects.
Addresses == {[f \in Functions |-> IF f = "f1" THEN 1 ELSE 2],
              [f \in Functions |-> IF f = "f1" THEN 2 ELSE 1]}

\* The entry of delayed_commands: the tuple (time, function, arguments).
\* The serial is not in the tuple; it tells the how-manieth call of
\* execute_delayed made the entry.
DelayedCommand(time, function, arguments, n) ==
    [time |-> time, function |-> function, arguments |-> arguments,
     serial |-> n]

\* Python 2 compares tuples item by item: the times, then the function
\* objects (by id()), then the arguments (all () here).
tuple_lt(a, b) ==
    \/ a.time < b.time
    \/ /\ a.time = b.time
       /\ address[a.function] < address[b.function]

\* bisect.insort on delayed_commands
RECURSIVE bisect_right_tuple(_, _, _, _)
bisect_right_tuple(a, x, lo, hi) ==
    IF lo < hi
    THEN LET mid == (lo + hi) \div 2
         IN IF tuple_lt(x, a[mid + 1])
            THEN bisect_right_tuple(a, x, lo, mid)
            ELSE bisect_right_tuple(a, x, mid + 1, hi)
    ELSE lo

insort_tuple(a, x) ==
    LET k == bisect_right_tuple(a, x, 0, Len(a))
    IN SubSeq(a, 1, k) \o <<x>> \o SubSeq(a, k + 1, Len(a))

\* IRC.execute_delayed; time.time() is now.
execute_delayed(commands, delay, function, arguments) ==
    insort_tuple(commands,
                 DelayedCommand(delay + now, function, arguments, serial + 1))

\* IRC.execute_at
execute_at(commands, at, function, arguments) ==
    execute_delayed(commands, at - now, function, arguments)

\* IRC.process_timeout: S.commands are the delayed commands, S.fired the
\* commands applied so far; t is the time read at the start.
RECURSIVE process_timeout(_, _)
process_timeout(S, t) ==
    IF S.commands = <<>> THEN S
    ELSE IF t >= S.commands[1].time
    THEN process_timeout([commands |-> Tail(S.commands),
                          fired |-> Append(S.fired, S.commands[1])], t)
    ELSE S

\* ---------------------------------------------------------------- actions
\* The connection and its client after an operation that ended in world R.
CommitClient(R, op, arg, argtype) ==
    /\ connected' = R.connected
    /\ socket' = R.socket
    /\ cond' = R.cond
    /\ wire' = R.wire
    /\ real_nickname' = R.real_nickname
    /\ real_server_name' = R.real_server_name
    /\ welcome_event_triggered' = R.welcome_event_triggered
    /\ delayed_001' = R.delayed_001
    /\ delayed_001_event' = R.delayed_001_event
    /\ delayed_001_saw_004' = R.delayed_001_saw_004
    /\ channels' = R.channels
    /\ handlers' = R.handlers
    /\ event_handling_queue' = R.queue
    /\ connections' = R.connections
    /\ on_connect_pending' = R.on_connect_pending
    /\ last' = [op |-> op, arg |-> arg, argtype |-> argtype, exc |-> R.exc,
                pre |-> [connected |-> connected, socket |-> socket,
                         real_nickname |-> real_nickname],
                drops |-> R.drops, handed |-> R.handed,
                processed |-> R.processed, calls |-> R.calls,
                wrote |-> R.wrote]

\* The state after an operation that ended in world R.
Commit(R, op, arg, argtype) ==
    /\ CommitClient(R, op, arg, argtype)
    /\ UNCHANGED <<bot_vars, sched_vars, lib_vars>>

NoOp == [op |-> "", arg |-> <<>>, argtype |-> "", exc |-> "",
         pre |-> [connected |-> FALSE, socket |-> None,
                  real_nickname |-> NoneStr],
         drops |-> 0, handed |-> <<>>, processed |-> <<>>, calls |-> <<>>,
         wrote |-> <<>>]

\* A Client.__init__ that registers the ping responder at priority 42.
Client_init_handlers_late ==
    add_global_handler([handlers |-> EmptyDict], "ping", "_ping_ponger", 42).handlers

\* Client.__init__ registers the ping responder.
Client_init_handlers ==
    add_global_handler([handlers |-> EmptyDict], "ping", "_ping_ponger", -42).handlers

\* After Client() and the ServerConnection constructor of add_server, before
\* the connection's thread is started.
ClientInit ==
    /\ connected = FALSE
    /\ socket = None
    /\ cond = [s \in Sockets |-> "unused"]
    /\ wire = [s \in Sockets |-> <<>>]
    /\ real_nickname = NoneStr
    /\ real_server_name = ""
    /\ welcome_event_triggered = FALSE
    /\ delayed_001 = FALSE
    /\ delayed_001_event = NoEvent
    /\ delayed_001_saw_004 = FALSE
    /\ channels = EmptyDict
    /\ handlers = Client_init_handlers
    /\ event_handling_queue = <<>>
    /\ connections = TRUE
    /\ password \in {"", "secret"}
    /\ pc_run = "new"
    /\ on_connect_pending = 0
    /\ lines_received = 0
    /\ line_mark = <<>>
    /\ last = NoOp

\* No operation of the bot yet.
BotNoOp ==
    [op |-> "", event |-> NoEvent, exc |-> "", at |-> 0,
     pre |-> [channels |-> EmptyDict, connected |-> FALSE, servers_pos |-> 0,
              check_scheduled |-> FALSE, queue |-> <<>>],
     delays |-> <<>>, attempts |-> <<>>, disconnects |-> 0, fired |-> <<>>]

\* After SingleServerIRCBot(server_list, nickname, realname, recon) with
\* recon = ExponentialBackoff(min_interval=..., max_interval=...).
BotInit(intervals) ==
    /\ bot_channels = EmptyDict
    /\ joined = {}
    /\ bot_connected = FALSE
    /\ servers_pos = 0
    /\ check_scheduled = FALSE
    /\ attempt_count = 1
    /\ min_interval = intervals.min
    /\ max_interval = intervals.max
    /\ scheduler_queue = <<>>
    /\ now = 0
    /\ bot_last = BotNoOp

\* After IRC().
SchedInit ==
    /\ delayed_commands = <<>>
    /\ address \in Addresses
    /\ serial = 0
    /\ sched_last = [op |-> "", at |-> 0, fired |-> <<>>]

\* The server is about to send the bytes S.
RxInit(S) ==
    /\ stream = S
    /\ unsent = S
    /\ inbox = <<>>
    /\ buffer = <<>>
    /\ delivered = <<>>
    /\ line_buffer = <<>>
    /\ chunks = <<>>
    /\ emitted = <<>>

\* No second connection yet, no lock held.
ReactorInit ==
    /\ other = [registered |-> FALSE, connected |-> FALSE, socket |-> None]
    /\ mutex = "none"
    /\ event_handling_mutex = "none"
    /\ conn_mutex = "none"
    /\ pc = [recv |-> "idle", main |-> "idle", adder |-> "idle",
             user |-> "idle"]

\* IRCDict()
TextInit ==
    /\ ircdict = EmptyDict
    /\ dict_last = [op |-> "", key |-> <<>>, val |-> "", pre |-> EmptyDict,
                    result |-> NoneStr, exc |-> ""]

\* No message has been given to dequote.
CtcpInit(message) ==
    /\ ctcp_message = message
    /\ ctcp_messages = [done |-> FALSE, out |-> <<>>]

ExtInit == CtcpInit(<<>>) /\ dcc_conn = NoDcc

LibInit ==
    /\ ReactorInit
    /\ RxInit(<<>>)
    /\ TextInit
    /\ ExtInit

Init ==
    /\ ClientInit
    /\ BotInit([min |-> 60, max |-> 300])
    /\ SchedInit
    /\ LibInit
    /\ address["f1"] = 1

Unused == {s \in Sockets : cond[s] = "unused"}
NextSocket == CHOOSE s \in Unused : \A t \in Unused : s <= t
MayWrite == IF socket = None THEN TRUE ELSE Len(wire[socket]) < MaxWire
UserHandlers ==
    LET RECURSIVE total(_)
        total(S) == IF S = {} THEN 0
                    ELSE LET e == CHOOSE e \in S : TRUE
                         IN Len(handlers[e]) + total(S \ {e})
    IN total(DOMAIN handlers) - 1

\* The thread of the connection starts: run() calls _do_connect.
RunStart(factory_raises) ==
    /\ pc_run = "new"
    /\ mutex = "none"              \* _do_connect: `with self.client.mutex`
    /\ Unused # {}
    /\ LET R == do_connect(World, password, factory_raises, NextSocket)
       IN /\ Commit(R, "connect", <<>>, "")
          /\ pc_run' = IF R.exc # "" THEN "dead" ELSE "loop"
    /\ UNCHANGED <<password, lines_received, line_mark>>

\* One turn of the loop of run(): input is a line, a hang-up or nothing.
RunIteration(input, elapsed) ==
    /\ pc_run = "loop"
    /\ socket # None
    /\ \/ input.kind = "hangup" /\ cond[socket] \in {"eof", "broken"}
       \/ /\ input.kind = "line" /\ cond[socket] = "ok"
          /\ lines_received < MaxLines
          /\ Len(event_handling_queue) < MaxQueue
       \/ /\ input.kind = "nothing" /\ cond[socket] = "ok"
          /\ elapsed /\ delayed_001 /\ delayed_001_saw_004
    /\ LET n == lines_received + 1
           R == run_iteration(World, input, n, elapsed)
       IN /\ Commit(R, "run", <<>>, input.kind)
          /\ pc_run' = IF R.exc = "blocked" THEN "blocked"
                       ELSE IF R.exc # "" THEN "dead" ELSE "loop"
          /\ lines_received' = IF input.kind = "line" THEN n ELSE lines_received
          /\ line_mark' = IF input.kind = "line"
                          THEN Append(line_mark, [sock |-> socket,
                                                  pos |-> Len(wire[socket])])
                          ELSE line_mark
    /\ UNCHANGED password

\* The thread started for the on_connect callback runs it.
OnConnectThread ==
    /\ on_connect_pending > 0
    /\ on_connect_pending' = on_connect_pending - 1
    /\ last' = [NoOp EXCEPT !.op = "on_connect"]
    /\ UNCHANGED <<connected, socket, cond, wire, real_nickname,
                   real_server_name, welcome_event_triggered, delayed_001,
                   delayed_001_event, delayed_001_saw_004, channels, handlers,
                   event_handling_queue, connections, password, pc_run,
                   lines_received, line_mark>>
    /\ UNCHANGED <<bot_vars, sched_vars, lib_vars>>

\* The user thread calls send_raw(string).
UserSendRaw(string) ==
    /\ MayWrite
    /\ Commit(send_raw(World, string), "send_raw", string, "str")
    /\ UNCHANGED <<password, pc_run, lines_received, line_mark>>

\* The user thread calls privmsg("#c", text).
UserPrivmsg(text) ==
    /\ MayWrite
    /\ Commit(privmsg(World, "#c", text), "privmsg", text, "str")
    /\ UNCHANGED <<password, pc_run, lines_received, line_mark>>

\* The user thread calls part(chans).
UserPart(chans) ==
    /\ MayWrite
    /\ Commit(part(World, chans), "part", <<chans.value>>, chans.type)
    /\ UNCHANGED <<password, pc_run, lines_received, line_mark>>

\* The user thread calls disconnect(message).
UserDisconnect(message) ==
    /\ Commit(disconnect(World, message), "disconnect", message, "str")
    /\ UNCHANGED <<password, pc_run, lines_received, line_mark>>

\* The user thread calls close(); it needs self.mutex.
UserClose ==
    /\ pc_run # "blocked"
    /\ Commit(close(World), "close", <<>>, "")
    /\ UNCHANGED <<password, pc_run, lines_received, line_mark>>

\* The user thread calls reconnect(); it needs self.mutex.
UserReconnect(factory_raises) ==
    /\ pc_run # "blocked"
    /\ Unused # {}
    /\ Commit(do_connect(World, password, factory_raises, NextSocket),
              "reconnect", <<>>, "")
    /\ UNCHANGED <<password, pc_run, lines_received, line_mark>>

\* The user thread calls Client.process().
UserProcess ==
    /\ event_handling_queue # <<>>
    /\ Commit(process(World), "process", <<>>, "")
    /\ UNCHANGED <<password, pc_run, lines_received, line_mark>>

\* The user thread calls add_global_handler(event, handler, priority).
UserAddHandler(event, handler, priority) ==
    /\ UserHandlers < MaxHandlers
    /\ Commit(add_global_handler(World, event, handler, priority),
              "add_global_handler", <<event, handler>>, "")
    /\ UNCHANGED <<password, pc_run, lines_received, line_mark>>

\* The peer closes its side: reads give zero bytes, writes still pass.
PeerClose ==
    /\ socket # None /\ cond[socket] = "ok"
    /\ cond' = [cond EXCEPT ![socket] = "eof"]
    /\ last' = [NoOp EXCEPT !.op = "peer_close"]
    /\ UNCHANGED <<connected, socket, wire, real_nickname, real_server_name,
                   welcome_event_triggered, delayed_001, delayed_001_event,
                   delayed_001_saw_004, channels, handlers,
                   event_handling_queue, connections, password, pc_run,
                   on_connect_pending, lines_received, line_mark>>
    /\ UNCHANGED <<bot_vars, sched_vars, lib_vars>>

\* The connection breaks: reads and writes raise socket.error.
SocketError ==
    /\ socket # None /\ cond[socket] \in {"ok", "eof"}
    /\ cond' = [cond EXCEPT ![socket] = "broken"]
    /\ last' = [NoOp EXCEPT !.op = "socket_error"]
    /\ UNCHANGED <<connected, socket, wire, real_nickname, real_server_name,
                   welcome_event_triggered, delayed_001, delayed_001_event,
                   delayed_001_saw_004, channels, handlers,
                   event_handling_queue, connections, password, pc_run,
                   on_connect_pending, lines_received, line_mark>>
    /\ UNCHANGED <<bot_vars, sched_vars, lib_vars>>

\* The program calls add_server a second time: the connection is appended
\* to Client.connections and its thread is started.
AddServer ==
    /\ ~other.registered
    /\ other' = [other EXCEPT !.registered = TRUE]
    /\ last' = [NoOp EXCEPT !.op = "add_server"]
    /\ UNCHANGED <<connected, socket, cond, wire, real_nickname,
                   real_server_name, welcome_event_triggered, delayed_001,
                   delayed_001_event, delayed_001_saw_004, channels, handlers,
                   event_handling_queue, connections, password, pc_run,
                   on_connect_pending, lines_received, line_mark>>
    /\ UNCHANGED <<bot_vars, sched_vars, lock_vars, rx_vars, text_vars,
                   ext_vars>>

\* The thread of the second connection starts: run() calls _do_connect.
OtherRunStart ==
    /\ other.registered /\ other.socket = None /\ ~other.connected
    /\ Unused # {}
    /\ LET R == do_connect(as_other(World, other), "", FALSE, NextSocket)
       IN /\ CommitClient(back(World, R), "other_connect", <<>>, "")
          /\ other' = [other EXCEPT !.connected = R.connected,
                                    !.socket = R.socket]
    /\ UNCHANGED <<password, pc_run, lines_received, line_mark>>
    /\ UNCHANGED <<bot_vars, sched_vars, lock_vars, rx_vars, text_vars,
                   ext_vars>>

\* The second connection breaks: reads and writes raise socket.error.
OtherSocketError ==
    /\ other.socket # None /\ cond[other.socket] = "ok"
    /\ cond' = [cond EXCEPT ![other.socket] = "broken"]
    /\ last' = [NoOp EXCEPT !.op = "socket_error"]
    /\ UNCHANGED <<connected, socket, wire, real_nickname, real_server_name,
                   welcome_event_triggered, delayed_001, delayed_001_event,
                   delayed_001_saw_004, channels, handlers,
                   event_handling_queue, connections, password, pc_run,
                   on_connect_pending, lines_received, line_mark>>
    /\ UNCHANGED <<bot_vars, sched_vars, lib_vars>>

\* The user thread calls Client.dcc("chat").
UserDcc ==
    /\ Commit(dcc(World), "dcc", <<>>, "")
    /\ UNCHANGED <<password, pc_run, lines_received, line_mark>>

\* The user thread calls Client.disconnect_all(message).
UserDisconnectAll(message) ==
    /\ LET R == disconnect_all(World, other, message)
       IN /\ CommitClient(R.w, "disconnect_all",
                          [message |-> message, other |-> other], "")
          /\ other' = R.other
    /\ UNCHANGED <<password, pc_run, lines_received, line_mark>>
    /\ UNCHANGED <<bot_vars, sched_vars, lock_vars, rx_vars, text_vars,
                   ext_vars>>

\* ----------------------------------------------------------------- inputs
Line(raw, prefix, command, arguments) ==
    [kind |-> "line", raw |-> raw, prefix |-> prefix, command |-> command,
     arguments |-> arguments]

PingLine == Line("PING :x", "", "ping", <<"x">>)
WelcomeLine ==
    Line(":irc.example.net 001 bestnick :Welcome", server, "welcome",
         <<"bestnick", "Welcome">>)
MyInfoLine ==
    Line(":irc.example.net 004 bestnick irc.example.net ircd", server,
         "myinfo", <<"bestnick", "irc.example.net", "ircd">>)
FeatureListLine ==
    Line(":irc.example.net 005 bestnick PREFIX=(ov)@+ :are supported", server,
         "featurelist", <<"bestnick", "PREFIX=(ov)@+", "are supported">>)
OwnJoinLine == Line(":bestnick!u@h JOIN #c", "bestnick!u@h", "join", <<"#c">>)
ModeLine == Line(":irc.example.net MODE #c +n", server, "mode", <<"#c", "+n">>)

Hangup == [kind |-> "hangup"]
Nothing == [kind |-> "nothing"]

Hi == <<"hi">>
WithNewline == <<"a", LF, "b">>
Bytes510 == <<PAD, PAD, "0123456789">>
Bytes511 == <<PAD, PAD, "0123456789a">>
Chars509Bytes510 == <<PAD, PAD, "01234567", U2>>
Chars510Bytes511 == <<PAD, PAD, "012345678", U2>>
LongWithNewline == <<PAD, PAD, PAD, LF>>

\* --------------------------------------------------------- specifications
\* The life of the connection: connects, reconnects, hang-ups and closes,
\* with the user thread sending and draining the event queue.
Next ==
    \/ \E f \in BOOLEAN : RunStart(f)
    \/ RunIteration(Hangup, FALSE)
    \/ OnConnectThread
    \/ UserSendRaw(Hi)
    \/ UserDisconnect(<<>>)
    \/ UserClose
    \/ \E f \in BOOLEAN : UserReconnect(f)
    \/ UserProcess
    \/ PeerClose
    \/ SocketError

Spec == Init /\ [][Next]_vars

\* The receive path: the lines of a registration and of a join, the
\* held-back welcome and join events, and the user thread draining the queue.
NextReceive ==
    \/ RunStart(FALSE)
    \/ \E input \in {PingLine, WelcomeLine, MyInfoLine, FeatureListLine,
                      OwnJoinLine, ModeLine} :
           RunIteration(input, FALSE)
    \/ RunIteration(Nothing, TRUE)
    \/ OnConnectThread
    \/ UserProcess

SpecReceive == Init /\ [][NextReceive]_vars

\* A turn of run()'s `while True` on a connection without a socket: the
\* mutex is taken, `self.socket != None` fails and the loop goes round.
RunIdle ==
    /\ pc_run = "loop"
    /\ socket = None
    /\ Commit(run_iteration(World, Nothing, lines_received, FALSE),
              "run", <<>>, "idle")
    /\ UNCHANGED <<password, pc_run, lines_received, line_mark>>

\* A turn of run() in which select finds no data, 10 s or more after the
\* 001 line.
RunQuiet ==
    /\ pc_run = "loop"
    /\ socket # None /\ cond[socket] = "ok"
    /\ Commit(run_iteration(World, Nothing, lines_received, TRUE),
              "run", <<>>, "quiet")
    /\ UNCHANGED <<password, pc_run, lines_received, line_mark>>

\* A turn of run() that reads a line more than 20 s after the Channel
\* records were made.
RunLate(input) ==
    /\ pc_run = "loop"
    /\ socket # None /\ cond[socket] = "ok"
    /\ lines_received < MaxLines
    /\ Len(event_handling_queue) < MaxQueue
    /\ LET n == lines_received + 1
           R == run_iteration([World EXCEPT !.late = TRUE], input, n, TRUE)
       IN /\ Commit(R, "run", <<>>, "late")
          /\ pc_run' = IF R.exc = "blocked" THEN "blocked"
                       ELSE IF R.exc # "" THEN "dead" ELSE "loop"
          /\ lines_received' = n
          /\ line_mark' = Append(line_mark, [sock |-> socket,
                                             pos |-> Len(wire[socket])])
    /\ UNCHANGED password

TopicLine ==
    Line(":irc.example.net 332 bestnick #c :hello", server, "currenttopic",
         <<"bestnick", "#c", "hello">>)
EndOfNamesLine ==
    Line(":irc.example.net 366 bestnick #c :End of /NAMES list.", server,
         "endofnames", <<"bestnick", "#c", "End of /NAMES list.">>)
HeldInputs ==
    {WelcomeLine, MyInfoLine, FeatureListLine, OwnJoinLine, TopicLine,
     EndOfNamesLine, ModeLine}

\* A registration and a join whose events are held back: the server sends
\* the lines it chooses to send, or none, and the receive loop keeps
\* taking its turns.
NextHeld ==
    \/ RunStart(FALSE)
    \/ \E input \in HeldInputs : RunIteration(input, FALSE)
    \/ \E input \in HeldInputs : RunLate(input)
    \/ RunQuiet
    \/ UserProcess

SpecHeld == Init /\ [][NextHeld]_vars /\ WF_vars(RunQuiet)

\* A connection that is used and closed: the receive thread takes its
\* turns for as long as its loop runs, lines or none.
NextClose ==
    \/ RunStart(FALSE)
    \/ \E input \in {PingLine, WelcomeLine, OwnJoinLine, Hangup} :
           RunIteration(input, FALSE)
    \/ RunIdle
    \/ PeerClose
    \/ UserClose
    \/ UserDisconnect(<<>>)
    \/ UserProcess

SpecClose ==
    /\ Init
    /\ [][NextClose]_vars
    /\ WF_vars(RunIdle)
    /\ WF_vars(\E input \in {PingLine, WelcomeLine, OwnJoinLine, Hangup} :
                   RunIteration(input, FALSE))

\* Dispatch: the user registers handlers, the server pings, the user thread
\* disconnects and drains the queue.
NextDispatch ==
    \/ RunStart(FALSE)
    \/ RunIteration(PingLine, FALSE)
    \/ \E event \in {"all_events", "ping"},
          handler \in {"returns_false", "returns_no_more", "says_hi"},
          priority \in {-50, 0} :
           UserAddHandler(event, handler, priority)
    \/ UserDisconnect(<<>>)
    \/ UserProcess

SpecDispatch == Init /\ [][NextDispatch]_vars

\* Handlers of equal priority: the program registers the callbacks h1, h2,
\* ... in this order, each for all_events or for ping and at one of two
\* priorities, one of which is the ping responder's.
MaxRegistered == 3

RegisterHandler(event, handler, priority) ==
    /\ UserHandlers < MaxRegistered
    /\ Commit(add_global_handler(World, event, handler, priority),
              "add_global_handler", <<event, handler>>, "")
    /\ UNCHANGED <<password, pc_run, lines_received, line_mark>>

\* The user thread calls remove_global_handler(event, handler); the record
\* of the call holds what it returned and the event's handlers before it.
UserRemoveHandler(event, handler) ==
    /\ LET R == remove_global_handler(World, event, handler)
       IN Commit(R.w, "remove_global_handler",
                 <<event, handler, R.result, dict_get(handlers, event)>>, "")
    /\ UNCHANGED <<password, pc_run, lines_received, line_mark>>

\* Handlers come and go: two callbacks, registered for two events at two
\* priorities, and removed.
NextRemove ==
    \/ \E event \in {"all_events", "ping"}, handler \in {"f", "g"},
          priority \in {0, 5} :
           RegisterHandler(event, handler, priority)
    \/ \E event \in {"all_events", "ping", "pubmsg"},
          handler \in {"f", "g"} :
           UserRemoveHandler(event, handler)

SpecRemove == Init /\ [][NextRemove]_vars

NextCallback == <<"h1", "h2", "h3", "h4">>[UserHandlers + 1]

\* The place of a callback in the order of the registrations; the ping
\* responder is registered by Client.__init__.
registered_at(cb) ==
    CASE cb = "_ping_ponger" -> 0
      [] cb = "h1" -> 1
      [] cb = "h2" -> 2
      [] cb = "h3" -> 3
      [] OTHER -> 4

NextTies ==
    \/ RunStart(FALSE)
    \/ RunIteration(PingLine, FALSE)
    \/ \E event \in {"all_events", "ping"}, priority \in {-42, 0} :
           RegisterHandler(event, NextCallback, priority)
    \/ UserProcess

SpecTies == Init /\ [][NextTies]_vars

\* The send path: texts at the limits of _prep_message, on a connection
\* with and without a socket.
NextSend ==
    \/ RunStart(FALSE)
    \/ OnConnectThread
    \/ \E string \in {Hi, WithNewline, Bytes510, Bytes511, Chars509Bytes510,
                       Chars510Bytes511, LongWithNewline} :
           UserSendRaw(string)
    \/ \E text \in {Hi, WithNewline} : UserPrivmsg(text)
    \/ \E chans \in {[type |-> "str", value |-> "#c"],
                      [type |-> "list", value |-> "#c"]} :
           UserPart(chans)
    \/ UserDisconnect(<<>>)
    \/ SocketError

SpecSend == Init /\ [][NextSend]_vars

\* Two connections of one client: they are made, they break, one is closed,
\* and the program disconnects them all.
NextDisconnectAll ==
    \/ RunStart(FALSE)
    \/ AddServer
    \/ OtherRunStart
    \/ SocketError
    \/ OtherSocketError
    \/ UserClose
    \/ UserDcc
    \/ \E message \in {<<>>, <<"bye">>} : UserDisconnectAll(message)

SpecDisconnectAll == Init /\ [][NextDisconnectAll]_vars

\* ---------------------------------------------------- threads and locks
\* A step of a thread that changes the client as R tells and the locks as
\* the step's own conjuncts tell.
LockStep(R, op) ==
    /\ CommitClient(R, op, <<>>, "")
    /\ UNCHANGED <<password, pc_run, lines_received, line_mark, other>>
    /\ UNCHANGED <<bot_vars, sched_vars, rx_vars, text_vars,
                   ext_vars>>

\* run(): `with self.mutex`, then select with its timeout of 0.2 s.
RecvEnter ==
    /\ pc_run = "loop" /\ pc.recv = "idle" /\ conn_mutex = "none"
    /\ socket # None
    /\ conn_mutex' = "recv"
    /\ pc' = [pc EXCEPT !.recv = "select"]
    /\ LockStep(World, "select")
    /\ UNCHANGED <<mutex, event_handling_mutex>>

\* select times out: the turn of the loop ends and self.mutex is released.
RecvTimeout ==
    /\ pc.recv = "select"
    /\ conn_mutex' = "none"
    /\ pc' = [pc EXCEPT !.recv = "idle"]
    /\ LockStep(World, "timeout")
    /\ UNCHANGED <<mutex, event_handling_mutex>>

\* select finds data: process_data reads a line and _process_line is about
\* to hand its first event to Client._handle_event.
RecvData ==
    /\ pc.recv = "select"
    /\ socket # None /\ cond[socket] = "ok"
    /\ Len(event_handling_queue) < MaxQueue
    /\ pc' = [pc EXCEPT !.recv = "handle_event"]
    /\ LockStep(World, "recv")
    /\ UNCHANGED <<mutex, event_handling_mutex, conn_mutex>>

\* Client._handle_event: `with self.event_handling_mutex`.
RecvLockEvents ==
    /\ pc.recv = "handle_event"
    /\ event_handling_mutex = "none"
    /\ event_handling_mutex' = "recv"
    /\ pc' = [pc EXCEPT !.recv = "locked"]
    /\ LockStep(World, "lock_events")
    /\ UNCHANGED <<mutex, conn_mutex>>

\* Client._handle_event: `with self.mutex` the handlers are sorted; the
\* event is queued and the locks are released, self.mutex of the
\* connection at the end of the turn.
RecvQueue ==
    /\ pc.recv = "locked"
    /\ mutex = "none"
    /\ event_handling_mutex' = "none"
    /\ conn_mutex' = "none"
    /\ pc' = [pc EXCEPT !.recv = "idle"]
    /\ LockStep(handle_event(World, Event("all_raw_messages", real_server_name,
                                           NoneStr, <<PingLine.raw>>)),
                "handle_event")
    /\ UNCHANGED mutex

\* Client.process takes an event from the queue; its handlers are called
\* next, with no lock held.
ProcessGet ==
    /\ pc.main = "idle"
    /\ event_handling_queue # <<>>
    /\ pc' = [pc EXCEPT !.main = "callback"]
    /\ LockStep([World EXCEPT !.queue = Tail(@)], "get")
    /\ UNCHANGED <<mutex, event_handling_mutex, conn_mutex>>

\* The handler that runs calls add_global_handler and returns.
CallbackAdds ==
    /\ pc.main = "callback"
    /\ mutex \in {"none", "main"}
    /\ UserHandlers < MaxRegistered
    /\ pc' = [pc EXCEPT !.main = "idle"]
    /\ LockStep(add_global_handler(World, "pubmsg", "h1", 0), "callback")
    /\ UNCHANGED <<mutex, event_handling_mutex, conn_mutex>>

\* The handler that runs returns.
CallbackReturns ==
    /\ pc.main = "callback"
    /\ pc' = [pc EXCEPT !.main = "idle"]
    /\ LockStep(World, "callback")
    /\ UNCHANGED <<mutex, event_handling_mutex, conn_mutex>>

\* Client.disconnect_all: `with self.mutex`.
DisconnectAllEnter ==
    /\ pc.main = "idle"
    /\ mutex = "none"
    /\ mutex' = "main"
    /\ pc' = [pc EXCEPT !.main = "disconnect_all"]
    /\ LockStep(World, "lock")
    /\ UNCHANGED <<event_handling_mutex, conn_mutex>>

\* Client.disconnect_all: the loop.  The disconnect of a connected
\* connection hands its event to Client._handle_event, which takes
\* event_handling_mutex and then self.mutex again (it is reentrant).
DisconnectAllRun ==
    /\ pc.main = "disconnect_all"
    /\ connected => event_handling_mutex = "none"
    /\ mutex' = "none"
    /\ pc' = [pc EXCEPT !.main = "idle"]
    /\ LockStep(disconnect_all(World, other, <<>>).w, "disconnect_all")
    /\ UNCHANGED <<event_handling_mutex, conn_mutex>>

\* Another thread calls add_global_handler.
AdderCall ==
    /\ pc.adder = "idle"
    /\ pc' = [pc EXCEPT !.adder = "waiting"]
    /\ LockStep(World, "call")
    /\ UNCHANGED <<mutex, event_handling_mutex, conn_mutex>>

\* add_global_handler: `with self.mutex` the handler is inserted.
AdderAdd ==
    /\ pc.adder = "waiting"
    /\ mutex = "none"
    /\ pc' = [pc EXCEPT !.adder = "done"]
    /\ LockStep(add_global_handler(World, "pubmsg", "h2", 0),
                "add_global_handler")
    /\ UNCHANGED <<mutex, event_handling_mutex, conn_mutex>>

\* The receive thread of a connection, the thread that calls process() and
\* disconnect_all(), and a thread that registers a handler.
InitLocks == Init /\ password = ""

NextLocks ==
    \/ RunStart(FALSE)
    \/ RecvEnter
    \/ RecvTimeout
    \/ RecvData
    \/ RecvLockEvents
    \/ RecvQueue
    \/ ProcessGet
    \/ CallbackAdds
    \/ CallbackReturns
    \/ DisconnectAllEnter
    \/ DisconnectAllRun
    \/ AdderCall
    \/ AdderAdd

\* A thread that holds what it needs goes on, and a thread that waits for
\* Client.mutex gets it if the mutex is free again and again.
SpecLocks ==
    /\ InitLocks
    /\ [][NextLocks]_vars
    /\ WF_vars(RecvQueue) /\ WF_vars(DisconnectAllRun) /\ SF_vars(AdderAdd)

\* The lines about the members of a channel, of the client itself and of
\* another user.
MembershipLines ==
    {OwnJoinLine,
     Line(":bestnick!u@h PART #c", "bestnick!u@h", "part", <<"#c">>),
     Line(":bob!b@h JOIN #c", "bob!b@h", "join", <<"#c">>),
     Line(":bob!b@h PART #c", "bob!b@h", "part", <<"#c">>),
     Line(":bob!b@h KICK #c alice", "bob!b@h", "kick", <<"#c", "alice">>)}

\* The receive thread, in _process_line under the connection's mutex that
\* run() took, hands the events of a membership line on and updates
\* _channels.  Where it reads the `channels` property it asks for the
\* connection's mutex a second time and waits: the mutex is a Lock, which
\* its own holder cannot take again, and no step leads on from there.
RecvMessage ==
    /\ pc.recv = "locked"
    /\ mutex = "none"
    /\ socket # None
    /\ lines_received < MaxLines
    /\ \E input \in MembershipLines :
           LET n == lines_received + 1
               R == run_iteration(World, input, n, FALSE)
           IN /\ CommitClient(R, "run", <<>>, input.kind)
              /\ pc_run' = IF R.exc = "blocked" THEN "blocked"
                           ELSE IF R.exc # "" THEN "dead" ELSE "loop"
              /\ pc' = [pc EXCEPT !.recv = IF R.exc = "blocked"
                                           THEN "channels" ELSE "idle"]
              /\ conn_mutex' = IF R.exc = "blocked" THEN "recv" ELSE "none"
    /\ event_handling_mutex' = "none"
    /\ lines_received' = lines_received + 1
    /\ line_mark' = Append(line_mark, [sock |-> socket,
                                       pos |-> Len(wire[socket])])
    /\ UNCHANGED <<mutex, password, other>>
    /\ UNCHANGED <<bot_vars, sched_vars, rx_vars, text_vars, ext_vars>>

\* The user thread reads the `ready` property: `with self.mutex`.
UserReadyCall ==
    /\ pc.user = "idle"
    /\ pc' = [pc EXCEPT !.user = "ready"]
    /\ LockStep(World, "call_ready")
    /\ UNCHANGED <<mutex, event_handling_mutex, conn_mutex>>

UserReadyGet ==
    /\ pc.user = "ready"
    /\ conn_mutex = "none"
    /\ pc' = [pc EXCEPT !.user = "idle"]
    /\ LockStep(World, "ready")
    /\ UNCHANGED <<mutex, event_handling_mutex, conn_mutex>>

\* The threads of SpecLocks with the membership lines and a user thread
\* that reads `ready`.  Every thread runs on when it can: a step that
\* needs a lock is taken if the lock is free again and again.
NextThreads ==
    \/ NextLocks
    \/ RecvMessage
    \/ UserReadyCall
    \/ UserReadyGet

SpecThreads ==
    /\ InitLocks
    /\ [][NextThreads]_vars
    /\ SF_vars(RecvLockEvents) /\ SF_vars(RecvQueue \/ RecvMessage)
    /\ SF_vars(DisconnectAllRun)
    /\ SF_vars(AdderAdd) /\ SF_vars(UserReadyGet)
    /\ WF_vars(RecvTimeout \/ RecvData)

\* ------------------------------------------------- the bytes of a line
MaxStream == 3
Streams == UNION {[1..n -> {"a", CR, LF}] : n \in 1..MaxStream}

\* The next k bytes of the server reach the socket.
Arrive(k) ==
    /\ k <= Len(unsent)
    /\ inbox' = inbox \o SubSeq(unsent, 1, k)
    /\ unsent' = SubSeq(unsent, k + 1, Len(unsent))
    /\ UNCHANGED <<stream, buffer, delivered, line_buffer, chunks, emitted>>
    /\ UNCHANGED <<client_vars, bot_vars, sched_vars, other, lock_vars,
                   text_vars, ext_vars>>

\* A turn of run(): select finds the socket readable, process_data runs.
ProcessData ==
    /\ inbox # <<>>
    /\ LET R == process_bytes(buffer, inbox)
       IN /\ buffer' = R.buffer
          /\ inbox' = R.inbox
          /\ delivered' = delivered \o R.lines
    /\ UNCHANGED <<stream, unsent, line_buffer, chunks, emitted>>
    /\ UNCHANGED <<client_vars, bot_vars, sched_vars, other, lock_vars,
                   text_vars, ext_vars>>

\* The program feeds the next k bytes to the LineBuffer.
Feed(k) ==
    /\ k <= Len(unsent)
    /\ line_buffer' = LineBuffer_feed(line_buffer, SubSeq(unsent, 1, k))
    /\ unsent' = SubSeq(unsent, k + 1, Len(unsent))
    /\ chunks' = Append(chunks, k)
    /\ UNCHANGED <<stream, inbox, buffer, delivered, emitted>>
    /\ UNCHANGED <<client_vars, bot_vars, sched_vars, other, lock_vars,
                   text_vars, ext_vars>>

\* The program takes the lines of the LineBuffer.
Lines ==
    /\ line_buffer # <<>>
    /\ LET R == LineBuffer_lines(line_buffer)
       IN /\ line_buffer' = R.buffer
          /\ emitted' = emitted \o R.lines
    /\ UNCHANGED <<stream, unsent, inbox, buffer, delivered, chunks>>
    /\ UNCHANGED <<client_vars, bot_vars, sched_vars, other, lock_vars,
                   text_vars, ext_vars>>

InitBytes ==
    /\ ClientInit /\ password = ""
    /\ BotInit([min |-> 60, max |-> 300])
    /\ SchedInit /\ address["f1"] = 1
    /\ ReactorInit
    /\ \E S \in Streams : RxInit(S)
    /\ TextInit
    /\ ExtInit

NextBytes ==
    \/ \E k \in 1..MaxStream : Arrive(k)
    \/ ProcessData

SpecBytes == InitBytes /\ [][NextBytes]_vars

NextLineBuffer ==
    \/ \E k \in 1..MaxStream : Feed(k)
    \/ Lines

SpecLineBuffer == InitBytes /\ [][NextLineBuffer]_vars

\* ------------------------------------------------- PRIVMSG and NOTICE
MaxBody == 5
Bodies == UNION {[1..n -> {DELIMITER, "A", "h"}] : n \in 1..MaxBody}

\* The receive thread reads the first line of the connection, a PRIVMSG
\* or NOTICE of bob.
ReceiveMessage(command, target, body) ==
    /\ pc_run = "loop"
    /\ socket # None /\ cond[socket] = "ok"
    /\ lines_received = 0
    /\ Commit(process_message_line(World, command, <<target, body>>),
              "message", [command |-> command, target |-> target,
                          body |-> body], "")
    /\ lines_received' = lines_received + 1
    /\ line_mark' = Append(line_mark, [sock |-> socket,
                                       pos |-> Len(wire[socket])])
    /\ UNCHANGED <<password, pc_run>>

InitMessage == Init /\ password = ""

NextMessage ==
    \/ RunStart(FALSE)
    \/ \E command \in {"privmsg", "notice"}, target \in {"#c", "bestnick"},
          body \in Bodies : ReceiveMessage(command, target, body)
    \/ UserProcess

SpecMessage == InitMessage /\ [][NextMessage]_vars

\* Message bodies put together from the delimiter, the tag ACTION, a space
\* and a letter.
MaxPieces == 6
Pieces == {<<DELIMITER>>, action_tag, <<" ">>, <<"w">>}

RECURSIVE Flatten(_)
Flatten(ps) == IF ps = <<>> THEN <<>> ELSE Head(ps) \o Flatten(Tail(ps))

ActionBodies ==
    {Flatten(ps) : ps \in UNION {[1..n -> Pieces] : n \in 1..MaxPieces}}

\* The first line of the connection is a PRIVMSG or NOTICE with such a body.
ReceiveActionMessage ==
    /\ lines_received = 0
    /\ \E command \in {"privmsg", "notice"}, target \in {"#c", "bestnick"},
          body \in ActionBodies : ReceiveMessage(command, target, body)

NextAction ==
    \/ RunStart(FALSE)
    \/ ReceiveActionMessage

SpecAction == InitMessage /\ [][NextAction]_vars

\* ------------------------------------------------------- the nickname
\* A 001 that addresses the client by another nickname, and NICK messages
\* of the client itself and of bob.
NickInputs ==
    {Line(":irc.example.net 001 nick2 :Welcome", server, "welcome",
          <<"nick2", "Welcome">>),
     Line(":bestnick!u@h NICK :nick2", "bestnick!u@h", "nick", <<"nick2">>),
     Line(":nick2!u@h NICK :bestnick", "nick2!u@h", "nick", <<"bestnick">>),
     Line(":bob!b@h NICK :rob", "bob!b@h", "nick", <<"rob">>),
     OwnJoinLine}

NextNick ==
    \/ RunStart(FALSE)
    \/ \E input \in NickInputs : RunIteration(input, FALSE)
    \/ UserReconnect(FALSE)
    \/ UserDisconnect(<<>>)
    \/ UserProcess

SpecNick == Init /\ [][NextNick]_vars

\* ------------------------------------------------------ malformed lines
\* A line the regular expression cannot split (it starts with a space), a
\* PRIVMSG with one parameter and with none, and a QUIT with none.
MalformedInputs ==
    {Line(" x", "", "", <<>>),
     Line(":bob!b@h PRIVMSG #c", "bob!b@h", "privmsg", <<"#c">>),
     Line(":bob!b@h PRIVMSG", "bob!b@h", "privmsg", <<>>),
     Line(":bob!b@h QUIT", "bob!b@h", "quit", <<>>)}

NextMalformed ==
    \/ RunStart(FALSE)
    \/ \E input \in MalformedInputs \cup {PingLine, WelcomeLine, OwnJoinLine} :
           RunIteration(input, FALSE)
    \/ UserProcess

SpecMalformed == Init /\ [][NextMalformed]_vars

\* ------------------------------------------------------------------ DCC
MaxDccCalls == 3
DccCalls ==
    {[call |-> "connect"], [call |-> "disconnect"]}
    \cup {[call |-> "send_bytes", ok |-> ok] : ok \in BOOLEAN}
    \cup {[call |-> "process_data", recv |-> r] :
              r \in {[kind |-> "error"], [kind |-> "eof"],
                     [kind |-> "data", bytes |-> <<KIB16>>],
                     [kind |-> "data", bytes |-> <<"a">>],
                     [kind |-> "data", bytes |-> <<"a", LF>>]}}

\* The program makes a DCCConnection and calls it.
DccProgram ==
    /\ last.op # "dcc_program"
    /\ \E dcctype \in {"chat", "raw"},
          steps \in UNION {[1..n -> DccCalls] : n \in 1..MaxDccCalls} :
           LET R == dcc_program(World, dcctype, steps)
           IN /\ CommitClient(R.w, "dcc_program",
                              [dcctype |-> dcctype, steps |-> steps], "")
              /\ dcc_conn' = R.conn
    /\ UNCHANGED <<password, pc_run, lines_received, line_mark>>
    /\ UNCHANGED <<bot_vars, sched_vars, other, lock_vars, rx_vars,
                   text_vars, ctcp_vars>>

NextDcc ==
    \/ RunStart(FALSE)
    \/ DccProgram

SpecDcc == InitMessage /\ [][NextDcc]_vars

\* --------------------------------------------------------- ctcp.dequote
MaxMessage == 4
CtcpMessages ==
    UNION {[1..n -> {DELIMITER, " ", "n", LOW_LEVEL_QUOTE}] :
               n \in 1..MaxMessage}

\* The program calls ctcp.dequote(message).
Dequote ==
    /\ ~ctcp_messages.done
    /\ ctcp_messages' = [done |-> TRUE, out |-> dequote(ctcp_message)]
    /\ UNCHANGED <<client_vars, bot_vars, sched_vars, other, lock_vars,
                   rx_vars, text_vars, ctcp_message, dcc_conn>>

InitDequote ==
    /\ ClientInit /\ password = ""
    /\ BotInit([min |-> 60, max |-> 300])
    /\ SchedInit /\ address["f1"] = 1
    /\ ReactorInit
    /\ RxInit(<<>>)
    /\ TextInit
    /\ \E message \in CtcpMessages : CtcpInit(message)
    /\ dcc_conn = NoDcc

NextDequote == Dequote

SpecDequote == InitDequote /\ [][NextDequote]_vars

\* ------------------------------------------------------------- IRCDict
MaxEntries == 2
Keys ==
    {<<"A">>, <<"a">>, <<"[", "A">>, <<"{", "a">>, <<"\\", "^">>, <<"|", "~">>}
Chars ==
    {ascii_uppercase[i] : i \in 1..26} \cup {ascii_lowercase[i] : i \in 1..26}
        \cup {"[", "]", "\\", "^", "{", "}", "|", "~", "1", "#", "U+00C9",
              "U+00E9"}

\* The program calls an operation of the dict: R is what it gives.
DictCommit(R, op, key, val) ==
    /\ ircdict' = R.d
    /\ dict_last' = [op |-> op, key |-> key, val |-> val, pre |-> ircdict,
                     result |-> R.result, exc |-> R.exc]
    /\ UNCHANGED <<client_vars, bot_vars, sched_vars, other, lock_vars,
                   rx_vars, ext_vars>>

DictSet(key, val) ==
    /\ Cardinality(DOMAIN ircdict) < MaxEntries \/ dict_find(ircdict, key) # {}
    /\ DictCommit(IRCDict_setitem(ircdict, key, val), "setitem", key, val)
DictSetdefault(key, val) ==
    /\ Cardinality(DOMAIN ircdict) < MaxEntries \/ dict_find(ircdict, key) # {}
    /\ DictCommit(IRCDict_setdefault(ircdict, key, val), "setdefault", key, val)
DictGet(key) == DictCommit(IRCDict_getitem(ircdict, key), "getitem", key, "")
DictContains(key) ==
    DictCommit(IRCDict_contains(ircdict, key), "contains", key, "")
DictDel(key) == DictCommit(IRCDict_delitem(ircdict, key), "delitem", key, "")
DictPop(key) == DictCommit(IRCDict_pop(ircdict, key), "pop", key, "")

InitDict == Init /\ password = ""

NextDict ==
    \E key \in Keys :
        \/ \E val \in {"v1", "v2"} : DictSet(key, val)
        \/ \E val \in {"v1", "v2"} : DictSetdefault(key, val)
        \/ DictGet(key)
        \/ DictContains(key)
        \/ DictDel(key)
        \/ DictPop(key)

SpecDict == InitDict /\ [][NextDict]_vars

\* ------------------------------------------------------------ bot actions
\* An operation of the bot ends: its state is what the operation left, and
\* bot_last tells what it did.
BotAssign(B, op, event) ==
    /\ bot_channels' = B.channels
    /\ bot_connected' = B.connected
    /\ servers_pos' = B.servers_pos
    /\ check_scheduled' = B.check_scheduled
    /\ attempt_count' = B.attempt_count
    /\ scheduler_queue' = B.queue
    /\ bot_last' = [op |-> op, event |-> event, exc |-> B.exc, at |-> now,
                    pre |-> [channels |-> bot_channels,
                             connected |-> bot_connected,
                             servers_pos |-> servers_pos,
                             check_scheduled |-> check_scheduled,
                             queue |-> scheduler_queue],
                    delays |-> B.delays, attempts |-> B.attempts,
                    disconnects |-> B.disconnects, fired |-> B.fired]
    /\ UNCHANGED <<min_interval, max_interval>>

BotCommit(B, op, event) ==
    /\ BotAssign(B, op, event)
    /\ UNCHANGED <<client_vars, sched_vars, lib_vars>>

\* The channels the server has confirmed the bot to be in: its own JOIN adds
\* one, its own PART and a KICK of the bot remove one.
own_event(event) ==
    CASE event.type \in {"join", "part"} -> nick_of(event.source) = bot_nickname
      [] event.type = "kick" -> event.arguments[1] = bot_nickname
      [] OTHER -> FALSE
joined_after(event) ==
    CASE event.type = "join" /\ own_event(event) ->
             joined \cup {irc_lower(event.target)}
      [] event.type \in {"part", "kick"} /\ own_event(event) ->
             joined \ {irc_lower(event.target)}
      [] OTHER -> joined

\* SingleServerIRCBot.start: _connect(), then the reactor runs.
BotStart(ok) ==
    /\ bot_last.op = ""
    /\ BotCommit(bot_connect(BotWorld, [num |-> 0, den |-> 1], ok),
                 "start", NoEvent)
    /\ UNCHANGED <<joined, now>>

\* The reactor hands an event from the server to the bot's handler.
BotEvent(event) ==
    /\ bot_connected
    /\ BotCommit(bot_handler(BotWorld, event, [num |-> 0, den |-> 1]),
                 event.type, event)
    /\ joined' = joined_after(event)
    /\ UNCHANGED now

\* The connection is lost, or the bot's disconnect() is called: the
\* disconnect event reaches _on_disconnect.
ServerDrops(r) ==
    /\ bot_connected
    /\ attempt_count <= MaxAttempts
    /\ BotCommit(connection_disconnect(BotWorld, r), "disconnect", NoEvent)
    /\ joined' = {}
    /\ UNCHANGED now

\* The program calls jump_server().
BotJumpServer(r, ok) ==
    /\ bot_last.op # ""
    /\ attempt_count <= MaxAttempts
    /\ BotCommit(jump_server(BotWorld, r, ok), "jump_server", NoEvent)
    /\ joined' = IF bot_connected THEN {} ELSE joined
    /\ UNCHANGED now

\* A second passes.
Tick ==
    /\ now < MaxTime
    /\ now' = now + 1
    /\ UNCHANGED <<bot_channels, joined, bot_connected, servers_pos,
                   check_scheduled, attempt_count, min_interval, max_interval,
                   scheduler_queue, bot_last>>
    /\ UNCHANGED <<client_vars, sched_vars, lib_vars>>

\* The functions the program has the scheduler call periodically.
PeriodicFunctions == {"keepalive", "report"}

\* PeriodicCommand.__setattr__: the delay must be positive.
valid_delay_not_negative(delay) == delay >= 0
valid_delay(delay) == delay > 0

\* PeriodicCommand.after(delay, function) (DelayedCommand.after)
periodic_after(delay, function) ==
    [due |-> now + delay, function |-> function, delay |-> delay]

\* PeriodicCommandFixedDelay.at_time(at, delay, function)
periodic_at_time(at, delay, function) ==
    [due |-> at, function |-> function, delay |-> delay]

\* PeriodicCommand.next
periodic_next_from_now(cmd) == [cmd EXCEPT !.due = now + cmd.delay]
periodic_next(cmd) == [cmd EXCEPT !.due = cmd.due + cmd.delay]

\* The scheduler's queue takes a command: behind the pending commands that
\* are due no later.
scheduler_add(queue, cmd) ==
    SelectSeq(queue, LAMBDA c : c.due <= cmd.due) \o <<cmd>>
        \o SelectSeq(queue, LAMBDA c : c.due > cmd.due)

\* The scheduler runs a command; a periodic command is put back as its
\* next().
fire(B, cmd, r, ok) ==
    LET B1 == [B EXCEPT !.fired = Append(@, cmd)]
    IN CASE cmd.function = "check" -> check(B1, r, ok)
         [] cmd.function \in PeriodicFunctions ->
                [B1 EXCEPT !.queue = scheduler_add(@, periodic_next(cmd))]
         [] OTHER -> B1

\* scheduler.run_pending(): the commands that are due are taken from the
\* front of the queue and run, one after the other.
RECURSIVE run_pending(_, _, _)
run_pending(B, r, ok) ==
    IF B.queue = <<>> THEN B
    ELSE IF B.queue[1].due > now THEN B
    ELSE run_pending(fire([B EXCEPT !.queue = Tail(@)], B.queue[1], r, ok),
                     r, ok)

\* The reactor's loop runs the pending commands.
RunPending(r, ok) ==
    /\ scheduler_queue # <<>>
    /\ scheduler_queue[1].due <= now
    /\ attempt_count <= MaxAttempts
    /\ BotCommit(run_pending(BotWorld, r, ok), "run_pending", NoEvent)
    /\ joined' = joined
    /\ UNCHANGED now

\* The scheduler takes a periodic command the program made; a delay that is
\* not positive is a ValueError.
AddPeriodic(command, op) ==
    LET cmd == [delay |-> command.delay, due |-> command.due,
                function |-> command.function]
    IN /\ \A i \in 1..Len(scheduler_queue) :
              scheduler_queue[i].function # cmd.function
       /\ BotCommit(IF valid_delay(cmd.delay)
                    THEN [BotWorld EXCEPT !.queue = scheduler_add(@, cmd)]
                    ELSE [BotWorld EXCEPT !.exc = "ValueError"],
                    op, cmd)
       /\ UNCHANGED <<joined, now>>

\* The program calls scheduler.execute_every(delay, function).
ExecuteEvery(delay, function) ==
    AddPeriodic(periodic_after(delay, function), "execute_every")

\* The program adds PeriodicCommandFixedDelay.at_time(at, delay, function).
AddFixedDelay(at, delay, function) ==
    AddPeriodic(periodic_at_time(at, delay, function), "at_time")

\* ------------------------------------------------------------- bot inputs
\* The events the bot has handlers for, of the bot itself ("bestnick!u@h")
\* and of other users; a mode event's first argument is the mode part, a
\* namreply's third the names.
ChannelEvents ==
    {Event("join", "bestnick!u@h", "#c", <<>>),
     Event("join", "bestnick!u@h", "#d", <<>>),
     Event("join", "alice!a@h", "#c", <<>>),
     Event("join", "alice!a@h", "#d", <<>>),
     Event("join", "bob!b@h", "#c", <<>>),
     Event("part", "bestnick!u@h", "#C", <<>>),
     Event("part", "bestnick!u@h", "#d", <<>>),
     Event("part", "Alice!a@h", "#c", <<>>),
     Event("kick", "bob!b@h", "#c", <<"Alice">>),
     Event("kick", "bob!b@h", "#d", <<bot_nickname>>),
     Event("quit", "Alice!a@h", NoneStr, <<>>),
     Event("quit", "bob!b@h", NoneStr, <<>>),
     Event("nick", "alice!a@h", "Alice", <<>>),
     Event("nick", "alice!a@h", "carol", <<>>),
     Event("nick", "bob!b@h", "alice", <<>>),
     Event("mode", "bob!b@h", "#c", <<<<"+", "o">>, "alice">>),
     Event("mode", "bob!b@h", "#c", <<<<"-", "o", "+", "v">>, "Alice", "bob">>),
     Event("mode", "bob!b@h", "#d", <<<<"+", "a">>, "alice">>),
     Event("namreply", "irc.example", bot_nickname,
           <<"=", "#c", <<[prefix |-> "@", nick |-> "alice"],
                          [prefix |-> "", nick |-> "bob"]>>>>)}

\* ----------------------------------------------------- bot specifications
\* The bot on one connection: the events it tracks, and the connection lost
\* and made again.
InitBot ==
    /\ ClientInit
    /\ password = ""
    /\ BotInit([min |-> 1, max |-> 3])
    /\ SchedInit
    /\ LibInit
    /\ address["f1"] = 1

NextBot ==
    \/ BotStart(TRUE)
    \/ \E event \in ChannelEvents : BotEvent(event)
    \/ ServerDrops([num |-> 0, den |-> 1])
    \/ BotJumpServer([num |-> 0, den |-> 1], TRUE)

SpecBot == InitBot /\ [][NextBot]_vars

\* The bot in one channel and the MODE events of that channel: each
\* per-user letter set and cleared, letters with and without an argument,
\* several letters in one event, and an argument of two words.
ModeEvents ==
    {Event("join", "bestnick!u@h", "#c", <<>>),
     Event("join", "alice!a@h", "#c", <<>>),
     Event("mode", "bob!b@h", "#c", <<<<"+", "o">>, "alice">>),
     Event("mode", "bob!b@h", "#c", <<<<"-", "o">>, "alice">>),
     Event("mode", "bob!b@h", "#c", <<<<"+", "v">>, "alice">>),
     Event("mode", "bob!b@h", "#c", <<<<"+", "q">>, "alice">>),
     Event("mode", "bob!b@h", "#c", <<<<"-", "h">>, "alice">>),
     Event("mode", "bob!b@h", "#c", <<<<"+", "a">>, "alice">>),
     Event("mode", "bob!b@h", "#c", <<<<"-", "a">>, "alice">>),
     Event("mode", "bob!b@h", "#c", <<<<"+", "o", "-", "o">>, "alice", "alice">>),
     Event("mode", "bob!b@h", "#c", <<<<"+", "n", "k">>, "key">>),
     Event("mode", "bob!b@h", "#c", <<<<"-", "k">>, "key">>),
     Event("mode", "bob!b@h", "#c", <<<<"+", "k">>, "my key">>),
     Event("mode", "bob!b@h", "#c", <<<<"-", "n", "+", "h">>, "alice">>),
     Event("mode", "bob!b@h", "bestnick", <<<<"+", "i">>>>)}

NextMode ==
    \/ BotStart(TRUE)
    \/ \E event \in ModeEvents : BotEvent(event)

SpecMode == InitBot /\ [][NextMode]_vars

\* The bot and its reconnect strategy: connections that fail, servers that
\* drop the bot, the clock and the scheduler.
InitRecon ==
    /\ ClientInit
    /\ password = ""
    /\ \E intervals \in {[min |-> 1, max |-> 3], [min |-> 2, max |-> 5]} :
           BotInit(intervals)
    /\ SchedInit
    /\ LibInit
    /\ address["f1"] = 1

NextRecon ==
    \/ \E ok \in BOOLEAN : BotStart(ok)
    \/ \E r \in Randoms : ServerDrops(r)
    \/ \E r \in Randoms, ok \in BOOLEAN : BotJumpServer(r, ok)
    \/ Tick
    \/ \E r \in Randoms, ok \in BOOLEAN : RunPending(r, ok)

SpecRecon == InitRecon /\ [][NextRecon]_vars

MaxPeriod == 2      \* the longest period of a periodic command

\* ServerConnection.set_keepalive: the pinger goes to the reactor's
\* execute_every.
UserSetKeepalive(interval) ==
    AddPeriodic(periodic_after(interval, "pinger"), "set_keepalive")

\* run_pending on a schedule of pingers: a pinger that is due calls
\* ping('keep-alive') on its connection and is put back as its next(); an
\* exception of the pinger ends run_pending and leaves the schedule as it is.
RECURSIVE keepalive_run_pending(_)
keepalive_run_pending(R) ==
    IF R.B.queue = <<>> THEN R
    ELSE IF R.B.queue[1].due > now THEN R
    ELSE LET cmd == R.B.queue[1]
             W1 == ping(R.W, "keep-alive")
             B1 == [R.B EXCEPT !.fired = Append(@, cmd)]
         IN IF W1.exc # "" THEN [W |-> W1, B |-> [B1 EXCEPT !.exc = W1.exc]]
            ELSE keepalive_run_pending(
                     [W |-> W1,
                      B |-> [B1 EXCEPT !.queue = scheduler_add(
                                           Tail(@), periodic_next(cmd))]])

\* The reactor's loop runs the pending pingers.
RunPendingKeepalive ==
    /\ scheduler_queue # <<>>
    /\ scheduler_queue[1].due <= now
    /\ MayWrite
    /\ LET R == keepalive_run_pending([W |-> World, B |-> BotWorld])
       IN /\ CommitClient(R.W, "run_pending", <<>>, "")
          /\ BotAssign(R.B, "run_pending", NoEvent)
    /\ UNCHANGED <<password, pc_run, lines_received, line_mark, joined, now>>
    /\ UNCHANGED <<sched_vars, lib_vars>>

\* A connection with a keepalive: it is made, the keepalive is set, it is
\* closed, and the reactor goes on running what is pending.
NextKeepalive ==
    \/ RunStart(FALSE)
    \/ \E interval \in 1..MaxPeriod : UserSetKeepalive(interval)
    \/ UserClose
    \/ SocketError
    \/ Tick
    \/ RunPendingKeepalive

SpecKeepalive == InitBot /\ [][NextKeepalive]_vars

\* The scheduler with periodic commands: the clock, and a reactor that gets
\* to run the pending commands late or on time.

NextPeriodic ==
    \/ \E delay \in -1..MaxPeriod, function \in PeriodicFunctions :
           ExecuteEvery(delay, function)
    \/ \E at \in 0..MaxTime, delay \in -1..MaxPeriod, function \in PeriodicFunctions :
           AddFixedDelay(at, delay, function)
    \/ Tick
    \/ RunPending([num |-> 0, den |-> 1], TRUE)

SpecPeriodic == InitBot /\ [][NextPeriodic]_vars

\* ---------------------------------------------- irclib: scheduler actions
SchedCommit(commands, op, fired) ==
    /\ delayed_commands' = commands
    /\ sched_last' = [op |-> op, at |-> now, fired |-> fired]
    /\ UNCHANGED address
    /\ UNCHANGED <<client_vars, bot_vars, lib_vars>>

\* The program calls execute_delayed(delay, function, ()).
ExecuteDelayed(delay, function) ==
    /\ serial < MaxScheduled
    /\ SchedCommit(execute_delayed(delayed_commands, delay, function, <<>>),
                   "execute_delayed", <<>>)
    /\ serial' = serial + 1

\* The program calls execute_at(at, function, ()).
ExecuteAt(at, function) ==
    /\ serial < MaxScheduled
    /\ SchedCommit(execute_at(delayed_commands, at, function, <<>>),
                   "execute_at", <<>>)
    /\ serial' = serial + 1

\* process_once calls process_timeout().
ProcessTimeout ==
    /\ delayed_commands # <<>>
    /\ LET S == process_timeout([commands |-> delayed_commands,
                                 fired |-> <<>>], now)
       IN SchedCommit(S.commands, "process_timeout", S.fired)
    /\ UNCHANGED serial

InitSched ==
    /\ ClientInit
    /\ password = ""
    /\ BotInit([min |-> 60, max |-> 300])
    /\ SchedInit
    /\ LibInit

NextSched ==
    \/ \E delay \in 0..2, function \in Functions :
           ExecuteDelayed(delay, function)
    \/ \E at \in 0..MaxTime, function \in Functions : ExecuteAt(at, function)
    \/ ProcessTimeout
    \/ Tick

SpecSched == InitSched /\ [][NextSched]_vars

\* ------------------------------------------------------------- properties
\* The number of disconnect events among the events an operation handed to
\* Client._handle_event.
DisconnectEvents(handed) ==
    Cardinality({i \in 1..Len(handed) : handed[i].event.type = "disconnect"})

\* C1: every operation hands exactly one disconnect event for each
\* transition of the connection from connected to not connected that it
\* makes, whatever made it: disconnect(), close(), a reconnect, a socket
\* error or a zero-byte read while receiving, a socket error while sending.
C1_OneDisconnectEventPerTransition ==
    last.drops = DisconnectEvents(last.handed)

\* A send on a broken socket took the connection from connected to not
\* connected.
C1_SendOnBrokenSocket ==
    /\ last.op = "send_raw"
    /\ last.pre.connected /\ ~connected
    /\ last.drops = 1

\* The number of times x occurs in the sequence a.
Count(a, x) == Cardinality({i \in 1..Len(a) : a[i] = x})

\* The sequences a and b hold the same elements, each as many times.
SameElements(a, b) ==
    /\ Len(a) = Len(b)
    /\ \A i \in 1..Len(a) : Count(a, a[i]) = Count(b, a[i])

\* The handler calls an operation made for the k-th event it took.
CallsOf(k) == SelectSeq(last.calls, LAMBDA c : c.k = k)

\* C2: the handlers of an event are the all_events handlers together with
\* the handlers of the event's type, a handler of strictly lower priority
\* number before one of higher; Client.process invokes them in that order,
\* all of them unless one returns False or raises.
C2_HandlersByPriority ==
    /\ \A i \in 1..Len(last.handed) :
           LET info == last.handed[i]
           IN /\ SameElements(info.handlers,
                              dict_get(handlers, "all_events")
                                  \o dict_get(handlers, info.event.type))
              /\ \A a, b \in 1..Len(info.handlers) :
                     info.handlers[a].priority < info.handlers[b].priority
                         => a < b
    /\ \A k \in 1..Len(last.processed) :
           LET info == last.processed[k]
               called == CallsOf(k)
           IN /\ Len(called) <= Len(info.handlers)
              /\ \A j \in 1..Len(called) : called[j].handler = info.handlers[j]
              /\ \A a, b \in 1..Len(called) :
                     called[a].handler.priority < called[b].handler.priority
                         => a < b
              /\ Len(called) < Len(info.handlers)
                     => /\ called # <<>>
                        /\ called[Len(called)].result \in {"False", "raised"}

\* Client.process called the ping responder and then an all_events handler
\* of higher priority number for one ping event.
C2_TypeHandlerBeforeAllEventsHandler ==
    /\ last.op = "process"
    /\ \E k \in 1..Len(last.processed) :
           LET called == CallsOf(k)
           IN /\ last.processed[k].event.type = "ping"
              /\ Len(called) = 2
              /\ called[1].handler.callback = "_ping_ponger"
              /\ called[2].handler.priority = 0
              /\ \E i \in 1..Len(dict_get(handlers, "all_events")) :
                     handlers["all_events"][i] = called[2].handler

PongFrame(x) == <<"PONG ", x, CR, LF>>

\* The responder is in the handlers of a ping event before every handler of
\* priority number above -42.
ResponderFirst(info) ==
    \E i \in 1..Len(info.handlers) :
        /\ info.handlers[i] = PrioritizedHandler(-42, "_ping_ponger")
        /\ \A j \in 1..Len(info.handlers) :
               info.handlers[j].priority > -42 => i < j

\* C4 as stated: the first frame written to the socket after a PING :x
\* line came from it is PONG x, it is written once the ping event has been
\* dispatched, and the responder comes before every ping handler of
\* priority number above -42.
C4_PongIsNextFrame ==
    /\ \A i \in 1..Len(event_handling_queue) :
           LET e == event_handling_queue[i].event
               m == line_mark[e.line]
           IN e.type = "ping" /\ Len(wire[m.sock]) > m.pos
                  => wire[m.sock][m.pos + 1] = PongFrame(e.target)
    /\ \A k \in 1..Len(last.processed) :
           LET e == last.processed[k].event
               m == line_mark[e.line]
           IN e.type = "ping"
                  => /\ Len(wire[m.sock]) > m.pos
                     /\ wire[m.sock][m.pos + 1] = PongFrame(e.target)
                     /\ ResponderFirst(last.processed[k])

\* C4: the handlers of a ping event have the responder before every handler
\* of priority number above -42, and when Client.process calls the
\* responder for PING :x on a socket that takes the write, the responder
\* writes the one frame PONG x to that socket.
C4_ResponderWritesPong ==
    /\ \A i \in 1..Len(last.handed) :
           last.handed[i].event.type = "ping" => ResponderFirst(last.handed[i])
    /\ \A k \in 1..Len(last.processed) :
           last.processed[k].event.type = "ping"
               => ResponderFirst(last.processed[k])
    /\ \A i \in 1..Len(last.calls) :
           LET c == last.calls[i]
           IN c.handler.callback = "_ping_ponger" /\ c.cond \in {"ok", "eof"}
                  => c.wrote = <<[sock |-> c.socket,
                                  bytes |-> PongFrame(
                                      last.processed[c.k].event.target)]>>

\* The responder wrote PONG x and a handler of priority number 0 was
\* called after it for the same ping event.
C4_PongThenLaterHandler ==
    /\ last.op = "process"
    /\ \E i, j \in 1..Len(last.calls) :
           /\ i < j /\ last.calls[i].k = last.calls[j].k
           /\ last.calls[i].handler.callback = "_ping_ponger"
           /\ last.calls[i].wrote # <<>>
           /\ last.calls[i].wrote[1].bytes = PongFrame("x")
           /\ last.calls[j].handler.priority = 0

\* C5: every frame written to a socket is at most 512 bytes long, ends with
\* CR LF and holds no other LF.
C5_FramesWellFormed ==
    \A s \in Sockets : \A i \in 1..Len(wire[s]) :
        LET frame == wire[s][i]
        IN /\ ByteLen(frame) <= 512
           /\ Len(frame) >= 2
           /\ frame[Len(frame) - 1] = CR
           /\ frame[Len(frame)] = LF
           /\ \A j \in 1..(Len(frame) - 1) : frame[j] # LF

\* A frame of exactly 512 bytes and 511 characters is on the wire.
C5_FrameOf512Bytes ==
    \E s \in Sockets : \E i \in 1..Len(wire[s]) :
        /\ wire[s][i] = encode_utf8(Chars509Bytes510) \o <<CR, LF>>
        /\ ByteLen(wire[s][i]) = 512

\* The text the last send handed to send_raw.
SentText ==
    IF last.op = "privmsg" THEN <<"PRIVMSG ", "#c", " :">> \o last.arg
    ELSE last.arg

\* The length of the frame of a text: its UTF-8 bytes and CR LF.
FramedLen(string) == ByteLen(encode_utf8(string)) + 2

\* The last operation wrote nothing and left the connected flag, the socket
\* and the nickname as they were.
NothingChanged ==
    /\ last.wrote = <<>>
    /\ connected = last.pre.connected
    /\ socket = last.pre.socket
    /\ real_nickname = last.pre.real_nickname

\* C6 as stated: a send whose text holds LF fails with InvalidCharacters, a
\* send whose frame would pass 512 bytes fails with MessageTooLong, and
\* neither writes anything or changes the connected flag, the socket or the
\* nickname.
C6_SendRejected ==
    last.op \in {"send_raw", "privmsg"}
        => /\ contains_newline(SentText)
                  => last.exc = "InvalidCharacters" /\ NothingChanged
           /\ FramedLen(SentText) > 512
                  => last.exc = "MessageTooLong" /\ NothingChanged

\* C6: on a connection that has a socket, a send whose text holds LF fails
\* with InvalidCharacters, a send whose text holds no LF and whose frame
\* would pass 512 bytes fails with MessageTooLong, and neither writes
\* anything or changes the connected flag, the socket or the nickname.
C6_SendRejectedWithSocket ==
    last.op \in {"send_raw", "privmsg"} /\ last.pre.socket # None
        => /\ contains_newline(SentText)
                  => last.exc = "InvalidCharacters" /\ NothingChanged
           /\ ~contains_newline(SentText) /\ FramedLen(SentText) > 512
                  => last.exc = "MessageTooLong" /\ NothingChanged

\* A send of 510 characters that make 511 bytes was refused on a connected
\* connection.
C6_TooLongInBytesRefused ==
    /\ last.op = "send_raw"
    /\ last.arg = Chars510Bytes511
    /\ last.pre.socket # None /\ last.pre.connected
    /\ last.exc = "MessageTooLong"

\* C7: on a connection with no socket, send_raw and the command methods
\* built on it fail with ServerNotConnectedError and write nothing.
C7_NoSocketNotConnected ==
    last.op \in {"send_raw", "privmsg", "part"} /\ last.pre.socket = None
        => last.exc = "ServerNotConnectedError" /\ last.wrote = <<>>

\* The events of the sequence that come from lines are in the order of
\* their lines.
InLineOrder(infos) ==
    \A i, j \in 1..Len(infos) :
        i < j /\ infos[i].event.line > 0 /\ infos[j].event.line > 0
            => infos[i].event.line <= infos[j].event.line

\* C8: the events of a connection are handed over in the order in which
\* their lines were received.
C8_EventsInLineOrder ==
    InLineOrder(event_handling_queue) /\ InLineOrder(last.handed)

\* The frames of the login of _do_connect.
LoginFrames(pw) ==
    (IF pw # "" THEN <<<<"PASS ", pw, CR, LF>>>> ELSE <<>>)
        \o <<<<"NICK ", nickname_on_connect, CR, LF>>,
             <<"USER ", nickname_on_connect, " 0 * :", nickname_on_connect,
               CR, LF>>>>

\* The frames the last operation wrote to socket s.
WroteTo(s) == SelectSeq(last.wrote, LAMBDA w : w.sock = s)

\* C9: when a connect has succeeded the connection is connected, the
\* on_connect callback has run, and the frames written to the new socket
\* are PASS (if there is a password), NICK and USER.
C9_CallbackThenLogin ==
    last.op \in {"connect", "reconnect"} /\ last.exc = ""
        => /\ connected
           /\ on_connect_pending = 0
           /\ [i \in 1..Len(WroteTo(socket)) |-> WroteTo(socket)[i].bytes]
                  = LoginFrames(password)

\* C10: a connect that opens a new socket on a connected connection first
\* writes QUIT to the old socket, as that socket's last frame, and closes
\* it, and writes everything else to the new socket; no operation writes to
\* a socket other than the one the connection had before or has after it.
C10_QuitOldSocketFirst ==
    /\ \A i \in 1..Len(last.wrote) :
           /\ last.wrote[i].sock # None
           /\ last.wrote[i].sock \in {last.pre.socket, socket}
    /\ (/\ last.op \in {"connect", "reconnect"}
        /\ last.pre.connected
        /\ socket # None /\ socket # last.pre.socket)
           => LET old == last.pre.socket
                  QuitFrame == <<"QUIT", " :", "Changing servers", CR, LF>>
              IN /\ old # None
                 /\ cond[old] = "closed"
                 /\ last.wrote # <<>>
                 /\ last.wrote[1] = [sock |-> old, bytes |-> QuitFrame]
                 /\ wire[old][Len(wire[old])] = QuitFrame
                 /\ \A i \in 2..Len(last.wrote) : last.wrote[i].sock = socket

\* A reconnect on a connected connection opened a new socket.
C10_ReconnectWhileConnected ==
    /\ last.op = "reconnect"
    /\ last.pre.connected /\ last.pre.socket # None
    /\ connected /\ socket # None /\ socket # last.pre.socket

\* C11: the operation that receives the 001 line hands the welcome event of
\* that line to the handlers, without waiting for a 005 line or a timeout.
C11_WelcomeHandedWithItsLine ==
    \A i \in 1..Len(last.handed) :
        LET raw == last.handed[i].event
        IN raw.type = "all_raw_messages" /\ raw.arguments = <<WelcomeLine.raw>>
               => \E j \in 1..Len(last.handed) :
                      /\ last.handed[j].event.type = "welcome"
                      /\ last.handed[j].event.line = raw.line


\* ------------------------------------------------------- bot properties
\* C12: in every channel record, each nick contained in some mode_users[m]
\* is also contained in users.
C12_ModeUsersAreUsers ==
    \A k \in DOMAIN bot_channels :
        \A m \in user_modes :
            bot_channels[k].mode_users[m] \subseteq bot_channels[k].users


\* The nick an event removes from channel records, and the records it is
\* removed from.
removed_nick(event) ==
    key_transform(IF event.type = "kick" THEN event.arguments[1]
                  ELSE nick_of(event.source))
left_channels(event) ==
    IF event.type = "quit" THEN DOMAIN bot_channels
    ELSE {irc_lower(event.target)} \cap DOMAIN bot_channels
InNoModeSet(C, who) == \A m \in user_modes : who \notin C.mode_users[m]

\* C13: after a kick, part or quit of a nick other than the bot's, the nick
\* is absent from users and from every mode_users[m] of the channel records
\* it left, compared case-insensitively; a nick that joins a record which
\* does not hold it has no modes there.
C13_RemovedNickIsGone ==
    /\ (/\ bot_last.op \in {"kick", "part", "quit"}
        /\ bot_last.exc = ""
        /\ ~own_event(bot_last.event))
           => \A k \in left_channels(bot_last.event) :
                  /\ removed_nick(bot_last.event) \notin bot_channels[k].users
                  /\ InNoModeSet(bot_channels[k],
                                 removed_nick(bot_last.event))
    /\ (/\ bot_last.op = "join"
        /\ bot_last.exc = ""
        /\ ~own_event(bot_last.event)
        /\ LET k == irc_lower(bot_last.event.target)
               who == key_transform(nick_of(bot_last.event.source))
           IN /\ who \notin bot_last.pre.channels[k].users
              /\ InNoModeSet(bot_last.pre.channels[k], who))
           => InNoModeSet(bot_channels[irc_lower(bot_last.event.target)],
                          key_transform(nick_of(bot_last.event.source)))


\* What a nick event did to one channel record that held the old nick.
Renamed(pre, post, b, a) ==
    /\ a \in post.users
    /\ \A m \in user_modes : b \in pre.mode_users[m] => a \in post.mode_users[m]
    /\ b # a => /\ b \notin post.users
                /\ InNoModeSet(post, b)
    /\ post.users \ {a, b} = pre.users \ {a, b}
    /\ \A m \in user_modes :
           post.mode_users[m] \ {a, b} = pre.mode_users[m] \ {a, b}
    /\ post.modes = pre.modes

\* C14: a nick event renames the nick in every channel record that holds the
\* old nick: the new nick is in users and in every mode_users[m] that held
\* the old one, the old nick is in none of them unless it folds to the new
\* one, and every other nick is where it was; the other records are as they
\* were.
C14_NickRenamesEverywhere ==
    bot_last.op = "nick" =>
        /\ bot_last.exc = ""
        /\ DOMAIN bot_channels = DOMAIN bot_last.pre.channels
        /\ \A k \in DOMAIN bot_channels :
               LET pre == bot_last.pre.channels[k]
                   b == key_transform(nick_of(bot_last.event.source))
                   a == key_transform(bot_last.event.target)
               IN IF b \in pre.users
                  THEN Renamed(pre, bot_channels[k], b, a)
                  ELSE bot_channels[k] = pre

\* A nick with a mode in one of two channel records that hold it took a new
\* name.
C14_RenamedInTwoChannels ==
    /\ bot_last.op = "nick"
    /\ LET b == key_transform(nick_of(bot_last.event.source))
           a == key_transform(bot_last.event.target)
       IN /\ a # b
          /\ \E k1, k2 \in DOMAIN bot_last.pre.channels :
                 /\ k1 # k2
                 /\ b \in bot_last.pre.channels[k1].users
                 /\ b \in bot_last.pre.channels[k2].users
                 /\ b \in bot_last.pre.channels[k1].mode_users["o"]
                 /\ a \in bot_channels[k1].mode_users["o"]


PendingChecks == SelectSeq(scheduler_queue, LAMBDA c : c.function = "check")

\* C16: at every moment at most one reconnect check is pending in the
\* scheduler, and the scheduler's queue has no more than that one entry.
C16_OneCheckPending ==
    /\ Len(PendingChecks) <= 1
    /\ Len(scheduler_queue) <= 1
    /\ check_scheduled <=> Len(PendingChecks) = 1

\* The connection was lost again while the check of an earlier loss was
\* still pending.
C16_DisconnectWhilePending ==
    /\ bot_last.op = "disconnect"
    /\ bot_last.disconnects = 1
    /\ bot_last.pre.check_scheduled
    /\ Len(bot_last.pre.queue) = 1
    /\ Len(scheduler_queue) = 1

\* C17: every delay the backoff strategy hands to the scheduler lies between
\* min_interval and max_interval, both included.
C17_DelayWithinIntervals ==
    \A i \in 1..Len(bot_last.delays) :
        /\ min_interval <= bot_last.delays[i]
        /\ bot_last.delays[i] <= max_interval

\* A delay of an attempt whose 2^k - 1 is beyond max_interval, and a delay
\* that the jitter had taken below min_interval.
C17_CappedAndFloored ==
    /\ bot_last.delays # <<>>
    /\ 2 ^ (attempt_count - 1) - 1 > max_interval
    /\ bot_last.delays[1] > min_interval
    /\ bot_last.delays[1] < max_interval

\* C18: a check that finds the bot disconnected schedules the next check and
\* attempts a connection to the next server of the list, cyclically; a check
\* that finds the bot connected schedules nothing and stays on its server.
C18_CheckJumpsToNextServer ==
    (bot_last.op = "run_pending" /\ Len(bot_last.fired) = 1
         /\ bot_last.fired[1].function = "check") =>
        IF ~bot_last.pre.connected
        THEN /\ Len(bot_last.delays) = 1
             /\ check_scheduled
             /\ scheduler_queue =
                    Tail(bot_last.pre.queue)
                        \o <<[due |-> bot_last.at + bot_last.delays[1],
                              function |-> "check"]>>
             /\ servers_pos = (bot_last.pre.servers_pos + 1) % NServers
             /\ bot_last.attempts = <<servers_pos>>
        ELSE /\ bot_last.delays = <<>>
             /\ ~check_scheduled
             /\ scheduler_queue = Tail(bot_last.pre.queue)
             /\ servers_pos = bot_last.pre.servers_pos
             /\ bot_last.attempts = <<>>
             /\ bot_connected

\* A check found the bot disconnected on the last server of the list and
\* went on to the first, where the connection failed.
C18_CheckWrapsAround ==
    /\ bot_last.op = "run_pending"
    /\ Len(bot_last.fired) = 1
    /\ ~bot_last.pre.connected
    /\ bot_last.pre.servers_pos = NServers - 1
    /\ servers_pos = 0
    /\ bot_last.attempts = <<0>>
    /\ ~bot_connected
    /\ check_scheduled


\* C19: the commands one process_timeout fires are in non-decreasing order of
\* their due times, those with the same due time in the order in which they
\* were scheduled, and none of them before its due time.
C19_FireInDueThenInsertionOrder ==
    /\ \A i, j \in 1..Len(sched_last.fired) :
           i < j =>
               /\ sched_last.fired[i].time <= sched_last.fired[j].time
               /\ sched_last.fired[i].time = sched_last.fired[j].time
                      => sched_last.fired[i].serial < sched_last.fired[j].serial
    /\ \A i \in 1..Len(sched_last.fired) :
           sched_last.fired[i].time <= sched_last.at


FiredOf(function) ==
    SelectSeq(bot_last.fired, LAMBDA c : c.function = function)
PendingOf(function) ==
    SelectSeq(scheduler_queue, LAMBDA c : c.function = function)

\* C20: a periodic command that is scheduled with period P comes due first
\* at the time it was given; each firing puts it back at its previous due
\* time plus P, whatever the time of the firing, so that the firings of one
\* run_pending and the command left pending are P apart.
C20_PeriodicAtFixedRate ==
    \A f \in PeriodicFunctions :
        /\ (bot_last.op = "run_pending" /\ FiredOf(f) # <<>>) =>
               LET fs == FiredOf(f)
                   period == fs[1].delay
               IN /\ \A i \in 1..Len(fs) :
                         /\ fs[i].due = fs[1].due + (i - 1) * period
                         /\ fs[i].delay = period
                         /\ fs[i].due <= bot_last.at
                  /\ PendingOf(f) =
                         <<[due |-> fs[1].due + Len(fs) * period,
                            function |-> f, delay |-> period]>>
        /\ Len(PendingOf(f)) <= 1
        /\ \A i \in 1..Len(PendingOf(f)) : PendingOf(f)[i].delay > 0

\* A periodic command fired late, twice in one run_pending, and is pending
\* at a time that is not the time of the firing plus its period.
C20_LateFiringKeepsRate ==
    /\ bot_last.op = "run_pending"
    /\ Len(FiredOf("keepalive")) = 2
    /\ FiredOf("keepalive")[1].due < bot_last.at
    /\ PendingOf("keepalive")[1].due
           # bot_last.at + PendingOf("keepalive")[1].delay


\* C21: a periodic command whose period is zero or negative is refused with
\* a ValueError when it is made and does not reach the schedule; no periodic
\* entry of the schedule has a period that is not positive.
C21_NonPositivePeriodRefused ==
    /\ (bot_last.op \in {"execute_every", "at_time"}
            /\ bot_last.event.delay <= 0) =>
           /\ bot_last.exc = "ValueError"
           /\ scheduler_queue = bot_last.pre.queue
    /\ \A i \in 1..Len(scheduler_queue) :
           scheduler_queue[i].function \in PeriodicFunctions
               => scheduler_queue[i].delay > 0

\* A periodic command with a negative period was refused while another was
\* pending.
C21_NegativePeriodRefused ==
    /\ bot_last.op = "execute_every"
    /\ bot_last.event.delay < 0
    /\ bot_last.exc = "ValueError"
    /\ Len(scheduler_queue) = 1


C23_TiesInRegistrationOrder ==
    \A k \in 1..Len(last.processed) :
        LET called == CallsOf(k)
        IN \A a, b \in 1..Len(called) :
               (/\ a < b
                /\ called[a].handler.priority = called[b].handler.priority)
                   => registered_at(called[a].handler.callback)
                          < registered_at(called[b].handler.callback)


\* The list a without its i-th item.
Without(a, i) == SubSeq(a, 1, i - 1) \o SubSeq(a, i + 1, Len(a))

\* C24: remove_global_handler(event, fn) takes one handler with callback fn
\* off the event's handlers, leaves every other handler in place and
\* returns 1; when fn is not registered for the event it returns 0 and
\* changes nothing.
C24_RemovesOneHandler ==
    last.op = "remove_global_handler" =>
        LET event == last.arg[1]
            fn == last.arg[2]
            result == last.arg[3]
            before == last.arg[4]
            now_there == dict_get(handlers, event)
            registered == {i \in 1..Len(before) : before[i].callback = fn}
        IN IF registered = {}
           THEN result = 0 /\ now_there = before
           ELSE /\ result = 1
                /\ \E i \in registered : now_there = Without(before, i)

\* C25: after disconnect_all(message) every connection in Client.connections
\* is disconnected, and every ServerConnection that was connected has been
\* sent QUIT with the message.  (No DCCConnection can be in the list: dcc()
\* raises before it appends.)
C25_DisconnectAllReachesAll ==
    last.op = "disconnect_all" =>
        LET frame == prep_message(
                         <<"QUIT">> \o (IF last.arg.message = <<>> THEN <<>>
                                        ELSE <<" :">> \o last.arg.message)).bytes
            sent(s) == \E i \in 1..Len(last.wrote) :
                           last.wrote[i] = [sock |-> s, bytes |-> frame]
        IN /\ connections => ~connected
           /\ other.registered => ~other.connected
           /\ (connections /\ last.pre.connected) => sent(last.pre.socket)
           /\ (other.registered /\ last.arg.other.connected) =>
                  sent(last.arg.other.socket)

\* C26: Client.mutex is held neither by a receive loop that waits in select
\* nor by the thread whose handler callback runs, and a thread that calls
\* add_global_handler does not wait for the mutex forever.
C26_MutexFreeWhileWaiting ==
    /\ [](pc.recv = "select" => mutex # "recv")
    /\ [](pc.main = "callback" => mutex # "main")
    /\ (pc.adder = "waiting") ~> (pc.adder = "done")

\* C27: bytes without their newline stay in the buffer until the rest
\* arrives: when all the bytes of the server have been read, the lines
\* handed on are those handed on when the bytes arrive in one piece.
C27_PiecesMakeTheSameLines ==
    (unsent = <<>> /\ inbox = <<>>) =>
        delivered = in_one_piece(<<>>, stream, <<>>)

\* The bytes of the lines in e and of their terminators.
RECURSIVE BytesOf(_)
BytesOf(e) ==
    IF e = <<>> THEN 0 ELSE Len(Head(e).line) + Head(e).sep + BytesOf(Tail(e))

\* C28: however the bytes are cut into chunks and whenever the lines are
\* taken in between, the LineBuffer yields the lines it yields when fed the
\* bytes at once, and the bytes of the lines, of their terminators and of
\* the buffer add up to the bytes fed.
C28_ChunkingInvariance ==
    LET fed == SubSeq(stream, 1, Len(stream) - Len(unsent))
        at_once == LineBuffer_lines(LineBuffer_feed(<<>>, fed))
    IN /\ BytesOf(emitted) + Len(line_buffer) = Len(fed)
       /\ find_newline(line_buffer, 1) = 0 =>
              /\ [i \in 1..Len(emitted) |-> emitted[i].line] =
                     [i \in 1..Len(at_once.lines) |-> at_once.lines[i].line]
              /\ line_buffer = at_once.buffer

\* A line whose terminator came in two chunks.
C28_TerminatorInTwoChunks ==
    /\ stream = <<"a", CR, LF>> /\ unsent = <<>>
    /\ chunks = <<2, 1>>
    /\ line_buffer = <<>>
    /\ emitted = <<[line |-> <<"a">>, sep |-> 2]>>

\* RFC 1459 folding of a character: A-Z to a-z, [ ] \ ^ to { } | ~.
Fold(c) ==
    CASE \E i \in 1..26 : ascii_uppercase[i] = c ->
             ascii_lowercase[CHOOSE i \in 1..26 : ascii_uppercase[i] = c]
      [] c = "[" -> "{"
      [] c = "]" -> "}"
      [] c = "\\" -> "|"
      [] c = "^" -> "~"
      [] OTHER -> c
Folded(key) == [i \in 1..Len(key) |-> Fold(key[i])]

\* The value a dict gives for a key, "none" if it has none.
Lookup(d, key) ==
    IF IRCDict_contains(d, key).result THEN IRCDict_getitem(d, key).result
    ELSE "none"

\* C29: IRCFoldedCase.lower is the RFC 1459 folding and is idempotent; the
\* operations of an IRCDict reach the same entry with two keys exactly when
\* the folded keys are equal.
C29_FoldedKeysAddressEntries ==
    LET P == dict_last.pre
        key == dict_last.key
        there == {s \in DOMAIN P : Folded(s) = Folded(key)}
        was == IF there = {} THEN "none" ELSE P[CHOOSE s \in there : TRUE]
        others_kept == \A k \in Keys : Folded(k) # Folded(key) =>
                           Lookup(ircdict, k) = Lookup(P, k)
        now_all(v) == \A k \in Keys : Folded(k) = Folded(key) =>
                           Lookup(ircdict, k) = v
    IN /\ \A k \in Keys \cup {<<c>> : c \in Chars} :
              /\ IRCFoldedCase_lower(k) = Folded(k)
              /\ IRCFoldedCase_lower(IRCFoldedCase_lower(k)) =
                     IRCFoldedCase_lower(k)
       /\ \A s, t \in DOMAIN ircdict : Folded(s) = Folded(t) => s = t
       /\ dict_last.op # "" => others_kept
       /\ dict_last.op = "setitem" => now_all(dict_last.val)
       /\ dict_last.op = "setdefault" =>
              /\ dict_last.result = (IF there = {} THEN dict_last.val ELSE was)
              /\ now_all(dict_last.result)
       /\ dict_last.op = "getitem" =>
              /\ ircdict = P
              /\ IF there = {} THEN dict_last.exc = "KeyError"
                 ELSE dict_last.exc = "" /\ dict_last.result = was
       /\ dict_last.op = "contains" =>
              ircdict = P /\ dict_last.result = (there # {})
       /\ dict_last.op \in {"delitem", "pop"} =>
              /\ dict_last.exc = (IF there = {} THEN "KeyError" ELSE "")
              /\ now_all("none")
              /\ dict_last.op = "pop" /\ there # {} => dict_last.result = was

\* The entry stored as [A is read with the key {a; there is another entry.
C29_ReadWithFoldedKey ==
    /\ dict_last.op = "getitem" /\ dict_last.key = <<"{", "a">>
    /\ dict_last.result = "v2"
    /\ DOMAIN ircdict = {<<"[", "A">>, <<"a">>}

\* C30: each chunk of the body of a PRIVMSG or NOTICE gives an event whose
\* type follows from the command, from the target being a channel and from
\* the chunk being tagged, whatever the chunks before it.
C30_TypeOfEachChunk ==
    last.op = "message" =>
        LET parts == dequote(last.arg.body)
            events == SelectSeq(last.handed, LAMBDA info :
                          info.event.type \notin {"all_raw_messages", "action"})
            public == is_channel(last.arg.target)
            type_of(tagged) ==
                IF last.arg.command = "privmsg"
                THEN IF tagged THEN "ctcp"
                     ELSE IF public THEN "pubmsg" ELSE "privmsg"
                ELSE IF tagged THEN "ctcpreply"
                     ELSE IF public THEN "pubnotice" ELSE "privnotice"
        IN /\ Len(events) = Len(parts)
           /\ \A i \in 1..Len(parts) :
                  events[i].event.type = type_of(parts[i].tagged)

\* The events a PRIVMSG or NOTICE line handed on, without the raw line.
MessageEvents ==
    SelectSeq(last.handed,
              LAMBDA info : info.event.type # "all_raw_messages")

\* C31: each chunk ACTION <text> of a PRIVMSG gives a ctcp event with the
\* arguments [ACTION, <text>] and right after it an action event with the
\* arguments [<text>], both with the source and the target of the message;
\* a NOTICE gives no action event.
C31_ActionAfterCtcp ==
    last.op = "message" =>
        LET E == MessageEvents
            tagged == SelectSeq(dequote(last.arg.body), LAMBDA m :
                          m.tagged /\ m.arguments[1] = action_tag)
            ctcps == {j \in 1..Len(E) :
                         /\ E[j].event.type = "ctcp"
                         /\ E[j].event.arguments[1] = action_tag}
            actions == {j \in 1..Len(E) : E[j].event.type = "action"}
        IN IF last.arg.command = "privmsg"
           THEN /\ Cardinality(ctcps) = Len(tagged)
                /\ \A j \in ctcps :
                       /\ j + 1 \in actions
                       /\ E[j + 1].event.arguments =
                              Tail(E[j].event.arguments)
                       /\ E[j].event.source = "bob!b@h"
                       /\ E[j + 1].event.source = "bob!b@h"
                       /\ E[j].event.target = last.arg.target
                       /\ E[j + 1].event.target = last.arg.target
                /\ \A j \in actions : j - 1 \in ctcps
           ELSE actions = {}

\* Where the claim holds: the messages in which no chunk follows a tagged
\* chunk.
C31_ActionOfLastChunk ==
    last.op = "message" =>
        LET ms == dequote(last.arg.body)
        IN (\A i \in 1..Len(ms) - 1 : ~ms[i].tagged) => C31_ActionAfterCtcp

\* A PRIVMSG with the one chunk ACTION w has given ctcp and action.
C31_ActionWaves ==
    /\ last.op = "message" /\ last.arg.command = "privmsg"
    /\ last.arg.body = <<DELIMITER>> \o action_tag \o <<" ", "w", DELIMITER>>
    /\ Len(MessageEvents) = 2
    /\ MessageEvents[2].event.type = "action"
    /\ MessageEvents[2].event.arguments = <<<<"w">>>>

\* What the chunks from index i on (counted from 0) give: a non-empty chunk
\* of even index is a text, a chunk of odd index is a tuple, but the last
\* chunk after an odd number of delimiters is a text with the delimiter.
RECURSIVE ChunkOutputs(_, _)
ChunkOutputs(parts, i) ==
    IF i >= Len(parts) THEN <<>>
    ELSE LET chunk == parts[i + 1]
             item == IF i % 2 = 0
                     THEN IF chunk = <<>> THEN <<>>
                          ELSE <<[tagged |-> FALSE, arguments |-> <<chunk>>]>>
                     ELSE IF i = Len(parts) - 1
                     THEN <<[tagged |-> FALSE,
                             arguments |-> <<<<DELIMITER>> \o chunk>>]>>
                     ELSE <<[tagged |-> TRUE,
                             arguments |-> split_once(chunk)]>>
         IN item \o ChunkOutputs(parts, i + 1)

\* C32: dequote splits the message at every delimiter and gives, in order,
\* each non-empty chunk of even index as a text and each chunk of odd index
\* as a tuple split at the first space; after an odd number of delimiters
\* the last chunk is a text with the delimiter before it; a message without
\* a delimiter is one text.
C32_DequoteChunks ==
    ctcp_messages.done =>
        LET substituted == low_level_sub(ctcp_message)
            parts == str_split(substituted, DELIMITER, <<>>, <<>>)
        IN ctcp_messages.out =
               IF Len(parts) = 1
               THEN <<[tagged |-> FALSE, arguments |-> <<substituted>>]>>
               ELSE ChunkOutputs(parts, 0)

\* The same, but for the text after the last of an even number of
\* delimiters, which dequote leaves out.
C32_DequoteDropsLastText ==
    ctcp_messages.done =>
        LET substituted == low_level_sub(ctcp_message)
            parts == str_split(substituted, DELIMITER, <<>>, <<>>)
        IN ctcp_messages.out =
               IF Len(parts) = 1
               THEN <<[tagged |-> FALSE, arguments |-> <<substituted>>]>>
               ELSE LET all == ChunkOutputs(parts, 0)
                    IN IF Len(parts) % 2 = 1 /\ parts[Len(parts)] # <<>>
                       THEN SubSeq(all, 1, Len(all) - 1)
                       ELSE all

\* The line the last turn of run() read.
LastLine ==
    CHOOSE l \in NickInputs : l.raw = last.handed[1].event.arguments[1]

ReadLine == last.op = "run" /\ last.argtype = "line"

\* C33: real_nickname changes only when connect sets it to the requested
\* nickname, when a 001 sets it to the nickname the server addressed, and
\* when a NICK from the current real_nickname sets it to the new nick; a
\* NICK from another source leaves it and is handed on as a nick event.
C33_NicknameChanges ==
    /\ real_nickname # last.pre.real_nickname =>
           \/ /\ last.op \in {"connect", "reconnect"}
              /\ real_nickname = nickname_on_connect
           \/ /\ ReadLine /\ LastLine.command = "welcome"
              /\ real_nickname = LastLine.arguments[1]
           \/ /\ ReadLine /\ LastLine.command = "nick"
              /\ nick_of(LastLine.prefix) = last.pre.real_nickname
              /\ real_nickname = LastLine.arguments[1]
    /\ (ReadLine /\ LastLine.command = "nick") =>
           IF nick_of(LastLine.prefix) = last.pre.real_nickname
           THEN real_nickname = LastLine.arguments[1]
           ELSE /\ real_nickname = last.pre.real_nickname
                /\ last.exc = ""
                /\ \E i \in 1..Len(last.handed) :
                       /\ last.handed[i].event.type = "nick"
                       /\ last.handed[i].event.source = LastLine.prefix
                       /\ last.handed[i].event.target = LastLine.arguments[1]

\* Where the claim holds: the only ways real_nickname changes.
C33_NicknameFrame ==
    /\ real_nickname # last.pre.real_nickname =>
           \/ /\ last.op \in {"connect", "reconnect"}
              /\ real_nickname = nickname_on_connect
           \/ /\ ReadLine /\ LastLine.command = "welcome"
              /\ real_nickname = LastLine.arguments[1]
           \/ /\ ReadLine /\ LastLine.command = "nick"
              /\ nick_of(LastLine.prefix) = last.pre.real_nickname
              /\ real_nickname = LastLine.arguments[1]
    /\ (ReadLine /\ LastLine.command = "nick"
           /\ nick_of(LastLine.prefix) # last.pre.real_nickname
           /\ DOMAIN channels = {}) =>
               /\ real_nickname = last.pre.real_nickname
               /\ last.exc = ""

\* C34: a line that cannot be split, or that lacks the parameters of its
\* command, is dropped: no error leaves the receive path, the connection
\* stays connected and the receive thread goes on with the next lines.
C34_MalformedLineDropped ==
    (ReadLine /\ last.handed[1].event.arguments[1]
                    \in {l.raw : l \in MalformedInputs}) =>
        /\ last.exc = ""
        /\ connected
        /\ pc_run = "loop"
        /\ Len(last.handed) = 1

\* The calls of the program are connect and then only reads of data.
OnlyReads(steps) ==
    /\ steps[1].call = "connect"
    /\ \A i \in 2..Len(steps) :
           steps[i].call = "process_data" /\ steps[i].recv.kind = "data"

\* The unterminated bytes a line buffer holds after the reads from i on.
RECURSIVE Unterminated(_, _, _)
Unterminated(buf, steps, i) ==
    IF i > Len(steps) THEN buf
    ELSE Unterminated(LineBuffer_lines(
                          LineBuffer_feed(buf, steps[i].recv.bytes)).buffer,
                      steps, i + 1)

SocketFails(step) ==
    \/ step.call = "process_data" /\ step.recv.kind \in {"error", "eof"}
    \/ step.call = "send_bytes" /\ ~step.ok

\* The program connects, one call fails on the socket, and after it the
\* program only disconnects.
FailsOnce(steps) ==
    /\ steps[1].call = "connect"
    /\ \E k \in 2..Len(steps) :
           /\ SocketFails(steps[k])
           /\ \A j \in 2..(k - 1) :
                  \/ steps[j].call = "send_bytes" /\ steps[j].ok
                  \/ /\ steps[j].call = "process_data"
                     /\ steps[j].recv.kind = "data"
           /\ \A j \in (k + 1)..Len(steps) : steps[j].call = "disconnect"

RECURSIVE StatedTriples(_, _, _)
StatedTriples(chars, args, sign) ==
    IF chars = <<>> THEN <<>>
    ELSE IF Head(chars) \in {"+", "-"}
    THEN StatedTriples(Tail(chars), args, Head(chars))
    ELSE LET takes == /\ Head(chars) \in user_modes \cup unary_modes
                      /\ args # <<>>
         IN <<[sign |-> sign, mode |-> Head(chars),
               argument |-> IF takes THEN Head(args) ELSE NoneStr]>>
                \o StatedTriples(Tail(chars),
                                 IF takes THEN Tail(args) ELSE args, sign)

\* A channel record after the stated triples, applied in order.
RECURSIVE AfterTriples(_, _)
AfterTriples(C, triples) ==
    IF triples = <<>> THEN C
    ELSE LET t == Head(triples)
             who == key_transform(t.argument)
             next ==
                 IF t.mode \in user_modes
                 THEN [C EXCEPT !.mode_users[t.mode] =
                           IF t.sign = "+" THEN @ \cup {who} ELSE @ \ {who}]
                 ELSE [C EXCEPT !.modes =
                           IF t.sign = "+" THEN (t.mode :> t.argument) @@ @
                           ELSE [k \in DOMAIN @ \ {t.mode} |-> @[k]]]
         IN AfterTriples(next, Tail(triples))

ChannelModeHandled ==
    /\ bot_last.op = "mode"
    /\ bot_last.exc = ""
    /\ is_channel(bot_last.event.target)

\* C37: a channel MODE event is applied triple by triple in order: "+m nick"
\* for a per-user letter m of o, v, q, h, a puts nick into mode_users[m] and
\* "-m nick" removes it; any other letter sets or deletes modes[letter],
\* with its argument, and leaves mode_users alone.
C37_ModeTriplesApplied ==
    ChannelModeHandled
        => LET k == irc_lower(bot_last.event.target)
               args == bot_last.event.arguments
           IN bot_channels[k] =
                  AfterTriples(bot_last.pre.channels[k],
                               StatedTriples(args[1], Tail(args), ""))

\* The same for the events whose letters are all among those that
\* parse_channel_modes gives an argument to or that take none, with
\* arguments of one word.
C37_ModeTriplesOfParsedLetters ==
    (/\ ChannelModeHandled
     /\ \A i \in 1..Len(bot_last.event.arguments[1]) :
            bot_last.event.arguments[1][i] # "a"
     /\ \A i \in 2..Len(bot_last.event.arguments) :
            Len(words(bot_last.event.arguments[i])) = 1)
        => LET k == irc_lower(bot_last.event.target)
               args == bot_last.event.arguments
           IN bot_channels[k] =
                  AfterTriples(bot_last.pre.channels[k],
                               StatedTriples(args[1], Tail(args), ""))

\* A channel record with a per-user mode set and a mode with its argument.
C37_ModesSet ==
    /\ ChannelModeHandled
    /\ "alice" \in bot_channels["#c"].mode_users["o"]
    /\ "k" \in DOMAIN bot_channels["#c"].modes
    /\ bot_channels["#c"].modes["k"] = "key"

\* --------------------------------------------------- thread properties
\* C38: no interleaving of the receive thread with the user threads
\* deadlocks: a thread that asks for a lock gets it, and the receive thread
\* does not wait forever on a mutex while it processes a message.
C38_NoThreadWaitsForever ==
    /\ (pc.recv = "handle_event") ~> (pc.recv = "locked")
    /\ (pc.recv = "locked") ~> (pc.recv # "locked")
    /\ (pc.recv = "channels") ~> (pc.recv = "idle")
    /\ (pc.main = "disconnect_all") ~> (pc.main = "idle")
    /\ (pc.adder = "waiting") ~> (pc.adder = "done")
    /\ (pc.user = "ready") ~> (pc.user = "idle")

\* The receive thread waits for the mutex it holds itself.
C38_WaitsForItsOwnMutex == pc.recv = "channels" /\ conn_mutex = "recv"

\* C39: after close() has been called on a connection whose receive thread
\* runs, the thread terminates: the loop of run() is left.
C39_ThreadEndsAfterClose ==
    (last.op = "close" /\ last.exc = "" /\ pc_run = "loop")
        ~> (pc_run \notin {"loop", "blocked"})

\* The receive thread takes a turn of its loop on the closed connection.
C39_LoopRunsOnClosed ==
    /\ last.op = "run" /\ last.argtype = "idle"
    /\ socket = None /\ ~connections
    /\ pc_run = "loop"

\* ------------------------------------------------ held-back events
HoldsJoin == \E c \in DOMAIN channels : channels[c].delayed_join_event # NoEvent

\* C40: while the connection stays open and its receive loop keeps running,
\* a welcome event held back after a 001 line and a join event held back
\* after the client's own JOIN are each eventually handed to the handlers,
\* even if the server sends no further line.
C40_HeldEventsReleased ==
    /\ (delayed_001 /\ pc_run = "loop") ~> (~delayed_001 \/ pc_run # "loop")
    /\ (HoldsJoin /\ pc_run = "loop") ~> (~HoldsJoin \/ pc_run # "loop")

\* A held-back event is handed on by a turn of the loop that reads no
\* line, or by a line that comes late.
C40_ReleasedByTimeout ==
    /\ last.op = "run" /\ last.argtype \in {"quiet", "late"}
    /\ \E i \in 1..Len(last.handed) :
           last.handed[i].event.type \in {"welcome", "join"}
====
